---- MODULE Spec2Model ----
(***************************************************************************)
(* Model of the evaluation orchestration engine of anode-evals:            *)
(*   - EvalRunner::run, the bounded-parallelism dispatcher                 *)
(*     (src/src/eval/runner.rs),                                           *)
(*   - run_single_eval, the lifecycle of one (prompt, agent) job,          *)
(*   - PodManager (src/src/kubernetes/pod_manager.rs), the sandbox         *)
(*     lifecycle manager; the Kubernetes API behind it is the environment  *)
(*     and answers every call nondeterministically,                        *)
(*   - EvalRunResult / EvaluationResults (src/src/eval/results.rs),        *)
(*   - LocalEvalRunner::run_local_tests, the sequential runner without     *)
(*     sandboxes (src/src/eval/local_runner.rs).                           *)
(*                                                                         *)
(* Conventions.                                                            *)
(*   Option<T>   None is <<>>, Some(x) is <<x>>.                           *)
(*   String      a sequence of tokens (each a TLA+ string): format! and    *)
(*               concatenation are \o, contains() is contiguous            *)
(*               sub-sequence search.                                      *)
(*   anyhow::Error  the chain of messages, outermost context first, root   *)
(*               cause last.                                               *)
(*   Timestamps  only whether completed_at is set is kept.                 *)
(***************************************************************************)
EXTENDS Integers, Sequences, FiniteSets, TLC

(* ------------------------------ bounds -------------------------------- *)

\* largest value of the parallelism argument of run; run is started with
\* 0, 1 or this value
MaxParallelism == 2

\* largest number of combinations of one run whose sandbox misbehaves (an
\* API call fails, the pod fails or outlives its deadline, the logs lack
\* the markers); the sandboxes of the others succeed in time
MaxFaulty == 1

\* longest text (in tokens) given to extract_test_output in FnSpec
MaxTextLen == 4

\* largest count (total, passed, failed, skipped) of the TestSuiteResults
\* given to complete_with_results in FnSpec
MaxCount == 2

\* largest passed and total given to pass_rate in FnSpec
MaxTests == 10

\* the largest number written in a test summary line
MaxNumeral == 3

\* longest run list given to calculate_scores in FnSpec
MaxRuns == 3

\* largest iterations of the agents given to id in FnSpec
MaxIterations == 2

\* most containers of a pod object given to get_pod_status in FnSpec
MaxContainers == 2

\* most lines of a text given to the cargo, pytest and go parsers in FnSpec
MaxLines == 3

(* --------------------------- configuration ---------------------------- *)

\* the prompts a configuration draws from (a configuration uses a prefix)
PromptPool ==
  << [id |-> "p1", test_harness |-> "go"],
     [id |-> "p2", test_harness |-> "pytest"] >>

\* the agents a configuration draws from; the third differs from the first
\* in iterations only
AgentPool ==
  << [tool |-> "ClaudeCode", model |-> [variant |-> "ClaudeOpus45", text |-> ""],
      iterations |-> 10],
     [tool |-> "Codex", model |-> [variant |-> "Gpt5", text |-> ""],
      iterations |-> 10],
     [tool |-> "ClaudeCode", model |-> [variant |-> "ClaudeOpus45", text |-> ""],
      iterations |-> 5] >>

Prefix(s, n) == [k \in 1..n |-> s[k]]

(* ------------------------------ options ------------------------------- *)

None == <<>>

Some(x) == <<x>>

is_some(o) == o # <<>>

(* ------------------------------- text --------------------------------- *)

\* str::contains: sub occurs in text as a contiguous run of tokens
Contains(text, sub) ==
  \E k \in 0..(Len(text) - Len(sub)) :
    \A j \in 1..Len(sub) : text[k + j] = sub[j]

\* index (0-based) of the first occurrence of token tok in text, or -1
Find(text, tok) ==
  IF \E k \in 1..Len(text) : text[k] = tok
    THEN (CHOOSE k \in 1..Len(text) :
            text[k] = tok /\ \A j \in 1..(k - 1) : text[j] # tok) - 1
    ELSE -1

IsWhitespace(tok) == tok \in {" ", "\n"}

RECURSIVE TrimStart(_)
TrimStart(text) ==
  IF text # <<>> /\ IsWhitespace(Head(text)) THEN TrimStart(Tail(text)) ELSE text

RECURSIVE TrimEnd(_)
TrimEnd(text) ==
  IF text # <<>> /\ IsWhitespace(text[Len(text)])
    THEN TrimEnd(SubSeq(text, 1, Len(text) - 1))
    ELSE text

Trim(text) == TrimEnd(TrimStart(text))

\* str::lines: the text split at "\n"; a final newline ends the last line
RECURSIVE Lines(_)
Lines(text) ==
  IF text = <<>> THEN <<>>
  ELSE LET nl == Find(text, "\n")
       IN IF nl = -1 THEN <<text>>
          ELSE <<SubSeq(text, 1, nl)>> \o Lines(SubSeq(text, nl + 2, Len(text)))

(* --------------------------- anyhow::Error ---------------------------- *)

\* the messages with which the Kubernetes API rejects a call
ApiErrors == { <<"ApiError: 403 Forbidden">> }

\* an error raised by the API client: a chain of one message
ApiError(msg) == <<msg>>

\* anyhow::Context::context: msg becomes the outermost message
context(e, msg) == <<msg>> \o e

\* Display ("{}") of an anyhow::Error prints the outermost message only
Display(e) == e[1]

(* ------------------- agents and prompts (types.rs) -------------------- *)

\* AgentTool
AgentTools == {"ClaudeCode", "Codex", "OpenCode"}

\* Display for AgentTool
AgentTool_to_string(tool) ==
  CASE tool = "ClaudeCode" -> "claude-code"
    [] tool = "Codex" -> "codex"
    [] tool = "OpenCode" -> "opencode"

\* the variants of ModelVersion that carry no text
NamedModels ==
  { [variant |-> v, text |-> ""] :
      v \in {"ClaudeOpus45", "ClaudeSonnet4", "Gpt52XHigh", "Gpt52High", "Gpt5",
             "O3", "QwenCoder8b"} }

\* ModelVersion::Custom(s)
Custom(s) == [variant |-> "Custom", text |-> s]

\* Display for ModelVersion
ModelVersion_to_string(model) ==
  CASE model.variant = "ClaudeOpus45" -> "claude-opus-4-5-20251101"
    [] model.variant = "ClaudeSonnet4" -> "claude-sonnet-4-20250514"
    [] model.variant = "Gpt52XHigh" -> "gpt-5.2-xhigh"
    [] model.variant = "Gpt52High" -> "gpt-5.2-high"
    [] model.variant = "Gpt5" -> "gpt-5"
    [] model.variant = "O3" -> "o3"
    [] model.variant = "QwenCoder8b" -> "qwen2.5-coder:7b"
    [] model.variant = "Custom" -> model.text

\* AgentConfig::id: "{tool}-{model}", both by their Display; the text of a
\* tool, the "-" and the text of a model are one token each (no tool's text
\* followed by "-" begins another tool's text, so two ids are equal as
\* strings exactly when they are equal token by token)
id(agent) ==
  <<AgentTool_to_string(agent.tool), "-", ModelVersion_to_string(agent.model)>>

\* the agent ids of the pool in ascending (byte-wise String) order, the
\* order in which a BTreeMap keyed by agent_id iterates
SortedAgentIds ==
  << <<"claude-code", "-", "claude-opus-4-5-20251101">>, <<"codex", "-", "gpt-5">> >>

\* EvalConfig::combinations: prompts outer, agents inner
RECURSIVE combinations_from(_, _, _, _)
combinations_from(prompts, agents, p, a) ==
  IF p > Len(prompts) THEN <<>>
  ELSE IF a > Len(agents) THEN combinations_from(prompts, agents, p + 1, 1)
  ELSE <<[prompt |-> prompts[p], agent |-> agents[a]]>>
         \o combinations_from(prompts, agents, p, a + 1)

\* a cross product with the agents in the outer loop
combinations_agents_outer(cfg) ==
  LET np == Len(cfg.prompts)
      na == Len(cfg.agents)
  IN [k \in 1..(np * na) |->
        [prompt |-> cfg.prompts[((k - 1) % np) + 1],
         agent |-> cfg.agents[((k - 1) \div np) + 1]]]

combinations(cfg) == combinations_from(cfg.prompts, cfg.agents, 1, 1)

(* ------------------------ results (results.rs) ------------------------ *)

RunStatuses == {"Pending", "Running", "Completed", "Failed", "Timeout", "Cancelled"}

\* an f64 that is a ratio of two u32 counts, kept exact
Ratio(n, d) == [num |-> n, den |-> d]

Zero == Ratio(0, 1)

RatioLess(x, y) == x.num * y.den < y.num * x.den

RatioEq(x, y) == x.num * y.den = y.num * x.den

\* a pass rate without the test for an empty suite
pass_rate_unguarded(t) == Ratio(t.passed * 100, t.total)

\* TestSuiteResult::pass_rate
pass_rate(t) ==
  IF t.total = 0 THEN Zero ELSE Ratio(t.passed * 100, t.total)

\* a constructor that already carries a score
EvalRunResult_new_scored(run_id, prompt_id, agent_id, agent_tool, model) ==
  [ run_id |-> run_id,
    prompt_id |-> prompt_id,
    agent_id |-> agent_id,
    agent_tool |-> agent_tool,
    model |-> model,
    completed_at |-> None,
    status |-> "Pending",
    test_results |-> None,
    score |-> Some(Zero),
    agent_logs |-> None,
    error |-> None ]

\* EvalRunResult::new
EvalRunResult_new(run_id, prompt_id, agent_id, agent_tool, model) ==
  [ run_id |-> run_id,
    prompt_id |-> prompt_id,
    agent_id |-> agent_id,
    agent_tool |-> agent_tool,
    model |-> model,
    completed_at |-> None,
    status |-> "Pending",
    test_results |-> None,
    score |-> None,
    agent_logs |-> None,
    error |-> None ]

\* a completion that does not stamp completed_at
complete_with_results_unstamped(r, test_results) ==
  [r EXCEPT !.score = Some(pass_rate(test_results)),
            !.test_results = Some(test_results),
            !.status = "Completed"]

\* a completion that keeps a score the run already has
complete_with_results_keeping_score(r, test_results) ==
  [r EXCEPT !.completed_at = Some("now"),
            !.score = IF is_some(@) THEN @ ELSE Some(pass_rate(test_results)),
            !.test_results = Some(test_results),
            !.status = "Completed"]

\* EvalRunResult::complete_with_results
complete_with_results(r, test_results) ==
  [r EXCEPT !.completed_at = Some("now"),
            !.score = Some(pass_rate(test_results)),
            !.test_results = Some(test_results),
            !.status = "Completed"]

\* a failure that leaves the status as it was
fail_with_error_keeping_status(r, error) ==
  [r EXCEPT !.completed_at = Some("now"),
            !.error = Some(error),
            !.score = Some(Zero)]

\* a failure that keeps a score the run already has
fail_with_error_keeping_score(r, error) ==
  [r EXCEPT !.completed_at = Some("now"),
            !.error = Some(error),
            !.status = "Failed",
            !.score = IF is_some(@) THEN @ ELSE Some(Zero)]

\* EvalRunResult::fail_with_error
fail_with_error(r, error) ==
  [r EXCEPT !.completed_at = Some("now"),
            !.error = Some(error),
            !.status = "Failed",
            !.score = Some(Zero)]

\* EvalSummary as EvaluationResults::new sets it
EmptySummary ==
  [ total_combinations |-> 0,
    completed |-> 0,
    failed |-> 0,
    timed_out |-> 0,
    total_tests |-> 0,
    passed_tests |-> 0,
    overall_pass_rate |-> Zero,
    best_agent |-> None,
    worst_agent |-> None ]

\* EvaluationResults::new
EvaluationResults_new ==
  [ completed_at |-> None,
    runs |-> <<>>,
    agent_scores |-> <<>>,
    summary |-> EmptySummary ]

\* an add_run that keeps only the runs that did not fail
add_run_dropping_failed(res, result) ==
  IF result.status = "Failed" THEN res ELSE [res EXCEPT !.runs = Append(@, result)]

\* an add_run that puts the result in front of the list
add_run_at_front(res, result) == [res EXCEPT !.runs = <<result>> \o @]

\* EvaluationResults::add_run
add_run(res, result) == [res EXCEPT !.runs = Append(@, result)]

\* number of positions of seq at which Test holds
Count(seq, Test(_)) == Cardinality({k \in 1..Len(seq) : Test(seq[k])})

\* sum of a sequence of numbers
RECURSIVE Sum(_)
Sum(seq) == IF seq = <<>> THEN 0 ELSE Head(seq) + Sum(Tail(seq))

SumOver(seq, F(_)) == Sum([k \in 1..Len(seq) |-> F(seq[k])])

\* an AgentScore whose test sums run over all the runs of the agent, not
\* only the Completed ones
AgentScoreOf_summing_all_runs(runs, aid) ==
  LET mine == SelectSeq(runs, LAMBDA r : r.agent_id = aid)
      done == SelectSeq(mine, LAMBDA r : r.status = "Completed")
      Tot(r) == IF is_some(r.test_results) THEN r.test_results[1].total ELSE 0
      Pas(r) == IF is_some(r.test_results) THEN r.test_results[1].passed ELSE 0
      total_tests == SumOver(mine, Tot)
      passed_tests == SumOver(mine, Pas)
  IN [ agent_id |-> aid,
       agent_tool |-> mine[1].agent_tool,
       model |-> mine[1].model,
       total_runs |-> Len(mine),
       completed_runs |-> Len(done),
       failed_runs |-> Count(mine, LAMBDA r : r.status \in {"Failed", "Timeout"}),
       total_tests |-> total_tests,
       passed_tests |-> passed_tests,
       average_score |-> IF total_tests > 0
                           THEN Ratio(passed_tests * 100, total_tests)
                           ELSE Zero,
       rank |-> 0,
       runs |-> [k \in 1..Len(mine) |-> mine[k].run_id] ]

\* the AgentScore that the first loop of calculate_scores accumulates for
\* agent id aid, followed by the average of the second loop
AgentScoreOf(runs, aid) ==
  LET mine == SelectSeq(runs, LAMBDA r : r.agent_id = aid)
      done == SelectSeq(mine, LAMBDA r : r.status = "Completed")
      Tot(r) == IF is_some(r.test_results) THEN r.test_results[1].total ELSE 0
      Pas(r) == IF is_some(r.test_results) THEN r.test_results[1].passed ELSE 0
      total_tests == SumOver(done, Tot)
      passed_tests == SumOver(done, Pas)
  IN [ agent_id |-> aid,
       agent_tool |-> mine[1].agent_tool,
       model |-> mine[1].model,
       total_runs |-> Len(mine),
       completed_runs |-> Len(done),
       failed_runs |-> Count(mine, LAMBDA r : r.status \in {"Failed", "Timeout"}),
       total_tests |-> total_tests,
       passed_tests |-> passed_tests,
       average_score |-> IF total_tests > 0
                           THEN Ratio(passed_tests * 100, total_tests)
                           ELSE Zero,
       rank |-> 0,
       runs |-> [k \in 1..Len(mine) |-> mine[k].run_id] ]

\* the AgentScores in the order in which the agents first appear in the
\* run list
AgentMapValues_in_arrival_order(runs) ==
  LET firsts == SelectSeq([k \in 1..Len(runs) |-> k],
                          LAMBDA k : \A j \in 1..(k - 1) : runs[j].agent_id # runs[k].agent_id)
  IN [k \in 1..Len(firsts) |-> AgentScoreOf(runs, runs[firsts[k]].agent_id)]

\* agent_map.into_values(): one AgentScore per agent id, ascending by id
AgentMapValues(runs) ==
  LET present == SelectSeq(SortedAgentIds,
                           LAMBDA aid : \E k \in 1..Len(runs) : runs[k].agent_id = aid)
  IN [k \in 1..Len(present) |-> AgentScoreOf(runs, present[k])]

\* insert x into the descending-sorted seq after every element that does
\* not compare below it (the place a stable sort gives it)
RECURSIVE InsertDesc(_, _)
InsertDesc(seq, x) ==
  IF seq = <<>> THEN <<x>>
  ELSE IF RatioLess(Head(seq).average_score, x.average_score)
         THEN <<x>> \o seq
         ELSE <<Head(seq)>> \o InsertDesc(Tail(seq), x)

\* scores.sort_by(|a, b| b.average_score.partial_cmp(&a.average_score)):
\* stable, descending
RECURSIVE SortDesc(_)
SortDesc(seq) ==
  IF seq = <<>> THEN <<>>
  ELSE InsertDesc(SortDesc(SubSeq(seq, 1, Len(seq) - 1)), seq[Len(seq)])

\* scores ranked in the order of the map, without the sort
RankedScores_unsorted(runs) ==
  LET sorted == AgentMapValues(runs)
  IN [k \in 1..Len(sorted) |-> [sorted[k] EXCEPT !.rank = k]]

\* scores sorted and ranked
RankedScores(runs) ==
  LET sorted == SortDesc(AgentMapValues(runs))
  IN [k \in 1..Len(sorted) |-> [sorted[k] EXCEPT !.rank = k]]

\* a summary whose best and worst agent are read from the map's order,
\* before the sort
calculate_scores_best_before_sort(res) ==
  LET scores == RankedScores(res.runs)
      unsorted == AgentMapValues(res.runs)
      total_tests == SumOver(scores, LAMBDA s : s.total_tests)
      passed_tests == SumOver(scores, LAMBDA s : s.passed_tests)
  IN [res EXCEPT
        !.summary =
          [ total_combinations |-> Len(res.runs),
            completed |-> Count(res.runs, LAMBDA r : r.status = "Completed"),
            failed |-> Count(res.runs, LAMBDA r : r.status = "Failed"),
            timed_out |-> Count(res.runs, LAMBDA r : r.status = "Timeout"),
            total_tests |-> total_tests,
            passed_tests |-> passed_tests,
            overall_pass_rate |-> IF total_tests > 0
                                    THEN Ratio(passed_tests * 100, total_tests)
                                    ELSE res.summary.overall_pass_rate,
            best_agent |-> IF unsorted = <<>> THEN None
                           ELSE Some(unsorted[1].agent_id),
            worst_agent |-> IF unsorted = <<>> THEN None
                            ELSE Some(unsorted[Len(unsorted)].agent_id) ],
        !.agent_scores = scores]

\* a calculate_scores that adds the runs to the counts the summary already
\* holds
calculate_scores_adding_to_summary(res) ==
  LET scores == RankedScores(res.runs)
      total_tests == SumOver(scores, LAMBDA s : s.total_tests)
      passed_tests == SumOver(scores, LAMBDA s : s.passed_tests)
  IN [res EXCEPT
        !.summary =
          [ total_combinations |-> res.summary.total_combinations + Len(res.runs),
            completed |-> res.summary.completed
                            + Count(res.runs, LAMBDA r : r.status = "Completed"),
            failed |-> res.summary.failed
                         + Count(res.runs, LAMBDA r : r.status = "Failed"),
            timed_out |-> Count(res.runs, LAMBDA r : r.status = "Timeout"),
            total_tests |-> total_tests,
            passed_tests |-> passed_tests,
            overall_pass_rate |-> IF total_tests > 0
                                    THEN Ratio(passed_tests * 100, total_tests)
                                    ELSE res.summary.overall_pass_rate,
            best_agent |-> IF scores = <<>> THEN None ELSE Some(scores[1].agent_id),
            worst_agent |-> IF scores = <<>> THEN None
                            ELSE Some(scores[Len(scores)].agent_id) ],
        !.agent_scores = scores]

\* EvaluationResults::calculate_scores
calculate_scores(res) ==
  LET scores == RankedScores(res.runs)
      total_tests == SumOver(scores, LAMBDA s : s.total_tests)
      passed_tests == SumOver(scores, LAMBDA s : s.passed_tests)
  IN [res EXCEPT
        !.summary =
          [ total_combinations |-> Len(res.runs),
            completed |-> Count(res.runs, LAMBDA r : r.status = "Completed"),
            failed |-> Count(res.runs, LAMBDA r : r.status = "Failed"),
            timed_out |-> Count(res.runs, LAMBDA r : r.status = "Timeout"),
            total_tests |-> total_tests,
            passed_tests |-> passed_tests,
            overall_pass_rate |-> IF total_tests > 0
                                    THEN Ratio(passed_tests * 100, total_tests)
                                    ELSE res.summary.overall_pass_rate,
            best_agent |-> IF scores = <<>> THEN None ELSE Some(scores[1].agent_id),
            worst_agent |-> IF scores = <<>> THEN None
                            ELSE Some(scores[Len(scores)].agent_id) ],
        !.agent_scores = scores]

\* EvaluationResults::finalize
finalize(res) == calculate_scores([res EXCEPT !.completed_at = Some("now")])

(* ----------------- output extraction and harness parsers -------------- *)

start_marker == "TEST_OUTPUT_START"

end_marker == "TEST_OUTPUT_END"

\* an extraction that takes the first end marker of the whole logs
extract_test_output_any_end(logs) ==
  LET start_idx == Find(logs, start_marker)
      end_idx == Find(logs, end_marker)
  IN IF start_idx = -1 \/ end_idx = -1 THEN None
     ELSE Some(Trim(SubSeq(logs, start_idx + 2, end_idx)))

\* extract_test_output: Some(trimmed text between the first start marker
\* and the first end marker after it), or None
extract_test_output(logs) ==
  LET start_idx == Find(logs, start_marker)
  IN IF start_idx = -1 THEN None
     ELSE LET after_start == SubSeq(logs, start_idx + 2, Len(logs))
              end_idx == Find(after_start, end_marker)
          IN IF end_idx = -1 THEN None
             ELSE Some(Trim(SubSeq(after_start, 1, end_idx)))

\* str::starts_with, for a prefix that is one token
StartsWith(line, tok) == line # <<>> /\ line[1] = tok

\* str::contains, for a needle that is one token
HasToken(line, tok) == \E k \in 1..Len(line) : line[k] = tok

\* split_whitespace().next(): the first token that is not whitespace
FirstWord(text) ==
  LET t == TrimStart(text) IN IF t = <<>> THEN None ELSE Some(t[1])

\* the part of text after the last occurrence of token sep (all of it when
\* sep does not occur): split(sep).last()
RECURSIVE AfterLast(_, _)
AfterLast(text, sep) ==
  LET k == Find(text, sep)
  IN IF k = -1 THEN text ELSE AfterLast(SubSeq(text, k + 2, Len(text)), sep)

TestCase(name, passed, error) == [name |-> name, passed |-> passed, error |-> error]

\* a go test name taken from whatever follows the prefix
GoTestName_without_space(line) ==
  LET w == FirstWord(SubSeq(line, 2, Len(line)))
  IN IF is_some(w) THEN w ELSE <<"unknown">>

\* name of a go test line: strip_prefix("--- PASS: ") then the first word
GoTestName(line) ==
  IF Len(line) >= 2 /\ line[2] = " "
    THEN LET w == FirstWord(SubSeq(line, 3, Len(line)))
         IN IF is_some(w) THEN w ELSE <<"unknown">>
    ELSE <<"unknown">>

\* parse_go_test_output
parse_go_test_output(output) ==
  LET lines == Lines(output)
      hits == SelectSeq(lines, LAMBDA l : StartsWith(l, "--- PASS:")
                                          \/ StartsWith(l, "--- FAIL:"))
      passed == Count(lines, LAMBDA l : StartsWith(l, "--- PASS:"))
      failed == Count(lines, LAMBDA l : ~StartsWith(l, "--- PASS:")
                                        /\ StartsWith(l, "--- FAIL:"))
  IN [ ok |-> TRUE,
       error |-> <<>>,
       value |->
         [ total |-> passed + failed,
           passed |-> passed,
           failed |-> failed,
           skipped |-> 0,
           tests |-> [k \in 1..Len(hits) |->
                        IF StartsWith(hits[k], "--- PASS:")
                          THEN TestCase(GoTestName(hits[k]), TRUE, None)
                          ELSE TestCase(GoTestName(hits[k]), FALSE,
                                        Some("Test failed"))],
           raw_output |-> output ] ]

\* name of a pytest line: the part after the last "::", trimmed, cut at its
\* first whitespace
PytestName(line) ==
  LET name == Trim(AfterLast(line, "::"))
  IN IF name = <<>> THEN name ELSE <<name[1]>>

\* a pytest parser that counts every line with FAILED as failed, also one
\* it has counted as passed
parse_pytest_output_counting_twice(output) ==
  LET lines == Lines(output)
      IsPassed(l) == HasToken(l, "PASSED")
      IsFailed(l) == HasToken(l, "FAILED")
      IsSkipped(l) == ~HasToken(l, "PASSED") /\ ~HasToken(l, "FAILED")
                      /\ HasToken(l, "SKIPPED")
      hits == SelectSeq(lines, LAMBDA l : IsPassed(l) \/ IsFailed(l))
      passed == Count(lines, IsPassed)
      failed == Count(lines, IsFailed)
      skipped == Count(lines, IsSkipped)
  IN [ ok |-> TRUE,
       error |-> <<>>,
       value |->
         [ total |-> passed + failed + skipped,
           passed |-> passed,
           failed |-> failed,
           skipped |-> skipped,
           tests |-> [k \in 1..Len(hits) |->
                        IF IsPassed(hits[k])
                          THEN TestCase(PytestName(hits[k]), TRUE, None)
                          ELSE TestCase(PytestName(hits[k]), FALSE,
                                        Some("Test failed"))],
           raw_output |-> output ] ]

\* parse_pytest_output
parse_pytest_output(output) ==
  LET lines == Lines(output)
      IsPassed(l) == HasToken(l, "PASSED")
      IsFailed(l) == ~HasToken(l, "PASSED") /\ HasToken(l, "FAILED")
      IsSkipped(l) == ~HasToken(l, "PASSED") /\ ~HasToken(l, "FAILED")
                      /\ HasToken(l, "SKIPPED")
      hits == SelectSeq(lines, LAMBDA l : IsPassed(l) \/ IsFailed(l))
      passed == Count(lines, IsPassed)
      failed == Count(lines, IsFailed)
      skipped == Count(lines, IsSkipped)
  IN [ ok |-> TRUE,
       error |-> <<>>,
       value |->
         [ total |-> passed + failed + skipped,
           passed |-> passed,
           failed |-> failed,
           skipped |-> skipped,
           tests |-> [k \in 1..Len(hits) |->
                        IF IsPassed(hits[k])
                          THEN TestCase(PytestName(hits[k]), TRUE, None)
                          ELSE TestCase(PytestName(hits[k]), FALSE,
                                        Some("Test failed"))],
           raw_output |-> output ] ]

\* the decimal numerals of a text: one token each, never two in a row
Numerals == { ToString(n) : n \in 0..MaxNumeral }

\* str::parse::<u32> of a numeral token
NumOf(tok) == CHOOSE n \in 0..MaxNumeral : ToString(n) = tok

\* str::to_lowercase, token by token
Lower(tok) ==
  CASE tok \in {"Passed", "PASSED"} -> "passed"
    [] tok \in {"Failed", "FAILED"} -> "failed"
    [] tok \in {"Tests:", "TESTS:"} -> "tests:"
    [] OTHER -> tok

\* line.to_lowercase()
LowerLine(line) == [k \in 1..Len(line) |-> Lower(line[k])]

\* the numbers of a line, in order: the line split at every non-numeric
\* character, the parts that parse as u32 kept
NumsOf(line) ==
  LET parts == SelectSeq(line, LAMBDA tok : tok \in Numerals)
  IN [k \in 1..Len(parts) |-> NumOf(parts[k])]

\* the counts parse_generic_test_output ends its loop with, all zero with
\* no summary line; the first line that matches a pattern decides
RECURSIVE GenericCounts(_)
GenericCounts(lines) ==
  IF lines = <<>> THEN [total |-> 0, passed |-> 0, failed |-> 0]
  ELSE LET line_lower == LowerLine(Head(lines))
           nums == NumsOf(Head(lines))
       IN IF /\ HasToken(line_lower, "passed")
             /\ HasToken(line_lower, "failed")
             /\ Len(nums) >= 2
            THEN [total |-> nums[1] + nums[2], passed |-> nums[1],
                  failed |-> nums[2]]
          ELSE IF HasToken(line_lower, "tests:") /\ nums # <<>>
            THEN LET passed == nums[1]
                     failed == IF Len(nums) >= 2 THEN nums[2] ELSE 0
                     total == IF Len(nums) >= 3 THEN nums[3] ELSE 0
                 IN [total |-> IF total = 0 THEN passed + failed ELSE total,
                     passed |-> passed, failed |-> failed]
          ELSE GenericCounts(Tail(lines))

\* a generic parser whose last matching line decides
parse_generic_test_output_last_match(output) ==
  LET lines == Lines(output)
      counts == GenericCounts([k \in 1..Len(lines) |-> lines[Len(lines) + 1 - k]])
  IN [ ok |-> TRUE,
       error |-> <<>>,
       value |->
         [ total |-> counts.total,
           passed |-> counts.passed,
           failed |-> counts.failed,
           skipped |-> 0,
           tests |-> <<>>,
           raw_output |-> output ] ]

\* parse_generic_test_output
parse_generic_test_output(output) ==
  LET counts == GenericCounts(Lines(output))
  IN [ ok |-> TRUE,
       error |-> <<>>,
       value |->
         [ total |-> counts.total,
           passed |-> counts.passed,
           failed |-> counts.failed,
           skipped |-> 0,
           tests |-> <<>>,
           raw_output |-> output ] ]

(* cargo test: lines of JSON, or plain text *)

\* str::starts_with, for a prefix of several tokens
StartsWithSeq(line, prefix) ==
  Len(line) >= Len(prefix) /\ SubSeq(line, 1, Len(prefix)) = prefix

\* the part of text before the first occurrence of sep (all of it when sep
\* does not occur): split(sep).next()
BeforeFirst(text, sep) ==
  IF Contains(text, sep)
    THEN LET k == CHOOSE k \in 0..(Len(text) - Len(sep)) :
                    /\ SubSeq(text, k + 1, k + Len(sep)) = sep
                    /\ \A j \in 0..(k - 1) : SubSeq(text, j + 1, j + Len(sep)) # sep
         IN SubSeq(text, 1, k)
    ELSE text

test_prefix == <<"test", " ">>

ok_mark == <<" ", "...", " ", "ok">>

failed_mark == <<" ", "...", " ", "FAILED">>

\* a line parse_cargo_test_plain counts
IsCargoTestLine(line) ==
  /\ StartsWithSeq(line, test_prefix)
  /\ Contains(line, ok_mark) \/ Contains(line, failed_mark)

\* a plain parser that counts a line with both marks as failed
IsCargoPassed_unless_failed(line) ==
  Contains(line, ok_mark) /\ ~Contains(line, failed_mark)

\* test_passed of a counted line
IsCargoPassed(line) == Contains(line, ok_mark)

\* name of a counted line: strip_prefix("test ") then split(" ... ").next()
CargoTestName(line) ==
  BeforeFirst(SubSeq(line, Len(test_prefix) + 1, Len(line)), <<" ", "...", " ">>)

\* a plain parser that keeps the trimmed text as raw_output
parse_cargo_test_plain_trimming_raw(output) ==
  LET hits == SelectSeq(Lines(output), IsCargoTestLine)
      passed == Count(hits, IsCargoPassed)
  IN [ ok |-> TRUE,
       error |-> <<>>,
       value |->
         [ total |-> Len(hits),
           passed |-> passed,
           failed |-> Len(hits) - passed,
           skipped |-> 0,
           tests |-> [k \in 1..Len(hits) |->
                        TestCase(CargoTestName(hits[k]), IsCargoPassed(hits[k]), None)],
           raw_output |-> Trim(output) ] ]

\* parse_cargo_test_plain
parse_cargo_test_plain(output) ==
  LET hits == SelectSeq(Lines(output), IsCargoTestLine)
      passed == Count(hits, IsCargoPassed)
  IN [ ok |-> TRUE,
       error |-> <<>>,
       value |->
         [ total |-> Len(hits),
           passed |-> passed,
           failed |-> Len(hits) - passed,
           skipped |-> 0,
           tests |-> [k \in 1..Len(hits) |->
                        TestCase(CargoTestName(hits[k]), IsCargoPassed(hits[k]), None)],
           raw_output |-> output ] ]

\* the tokens of a JSON text that are not a string's content or a literal
JsonPunctuation == {"{", "}", ":", ",", "\""}

\* the literals of the JSON texts: numbers, true, false, null
JsonLiterals == {"0.5", "1", "true", "null"}

\* the members of the JSON object that toks holds between its braces, in
\* order, each [key, is_str, text]; ok is FALSE when toks is no member list.
\* A string is a quote, one token of content and a quote; the other values
\* are literals (objects and arrays as values are left out)
RECURSIVE JsonMembers(_)
JsonMembers(toks) ==
  LET bad == [ok |-> FALSE, members |-> <<>>]
      Rest(member, rest) ==
        IF rest = <<>> THEN [ok |-> TRUE, members |-> <<member>>]
        ELSE IF rest[1] = "," /\ Len(rest) > 1
          THEN LET more == JsonMembers(Tail(rest))
               IN IF more.ok
                    THEN [ok |-> TRUE, members |-> <<member>> \o more.members]
                    ELSE bad
        ELSE bad
  IN IF /\ Len(toks) >= 5
        /\ toks[1] = "\"" /\ toks[2] \notin JsonPunctuation /\ toks[3] = "\""
        /\ toks[4] = ":"
       THEN IF /\ Len(toks) >= 7
               /\ toks[5] = "\"" /\ toks[6] \notin JsonPunctuation /\ toks[7] = "\""
              THEN Rest([key |-> toks[2], is_str |-> TRUE, text |-> toks[6]],
                        SubSeq(toks, 8, Len(toks)))
            ELSE IF toks[5] \in JsonLiterals
              THEN Rest([key |-> toks[2], is_str |-> FALSE, text |-> toks[5]],
                        SubSeq(toks, 6, Len(toks)))
            ELSE bad
     ELSE bad

\* serde_json::from_str::<Value>(line) for a line that is an object: its
\* members, whitespace between tokens skipped. A line that is no JSON, or
\* JSON that is no object, gives ok = FALSE: get() finds nothing in either
JsonObject(line) ==
  LET toks == SelectSeq(line, LAMBDA t : t # " ")
  IN IF Len(toks) >= 2 /\ toks[1] = "{" /\ toks[Len(toks)] = "}"
       THEN IF Len(toks) = 2 THEN [ok |-> TRUE, members |-> <<>>]
            ELSE JsonMembers(SubSeq(toks, 2, Len(toks) - 1))
       ELSE [ok |-> FALSE, members |-> <<>>]

\* json.get(key).and_then(|v| v.as_str()): the value of the last member
\* with that key, if it is a string
JsonGetStr(object, key) ==
  LET at == {k \in 1..Len(object.members) : object.members[k].key = key}
  IN IF ~object.ok \/ at = {} THEN None
     ELSE LET last == CHOOSE k \in at : \A j \in at : j <= k
          IN IF object.members[last].is_str
               THEN Some(object.members[last].text) ELSE None

\* a line parse_cargo_test_output counts: a JSON object whose "type" is
\* the string "test" and whose "event" and "name" are strings
IsCargoTestEvent(line) ==
  LET json == JsonObject(line)
  IN /\ JsonGetStr(json, "type") = Some("test")
     /\ is_some(JsonGetStr(json, "event"))
     /\ is_some(JsonGetStr(json, "name"))

\* test_passed of a counted event
IsCargoEventOk(line) == JsonGetStr(JsonObject(line), "event") = Some("ok")

\* parse_cargo_test_output: the events of the JSON lines, or the plain
\* parser when there is none
parse_cargo_test_output(output) ==
  LET hits == SelectSeq(Lines(output), IsCargoTestEvent)
      passed == Count(hits, IsCargoEventOk)
  IN IF hits = <<>> THEN parse_cargo_test_plain(output)
     ELSE [ ok |-> TRUE,
            error |-> <<>>,
            value |->
              [ total |-> Len(hits),
                passed |-> passed,
                failed |-> Len(hits) - passed,
                skipped |-> 0,
                tests |-> [k \in 1..Len(hits) |->
                             LET json == JsonObject(hits[k])
                             IN TestCase(<<JsonGetStr(json, "name")[1]>>,
                                         IsCargoEventOk(hits[k]),
                                         IF IsCargoEventOk(hits[k]) THEN None
                                         ELSE JsonGetStr(json, "stdout"))],
                raw_output |-> output ] ]

\* parse_test_output: the parser of the prompt's harness
parse_test_output(harness, output) ==
  CASE harness = "pytest" -> parse_pytest_output(output)
    [] harness = "go" -> parse_go_test_output(output)
    [] harness \in {"npm", "custom"} -> parse_generic_test_output(output)
    [] harness = "cargo" -> parse_cargo_test_output(output)

(* ------------------ harness parsers of local_runner.rs --------------- *)

\* a TestSuiteResult of the local parsers: counts only, no per-case entries
LocalSuite(passed, failed, output) ==
  [ ok |-> TRUE,
    error |-> <<>>,
    value |-> [ total |-> passed + failed,
                passed |-> passed,
                failed |-> failed,
                skipped |-> 0,
                tests |-> <<>>,
                raw_output |-> output ] ]

\* local_runner.rs parse_pytest_output
local_parse_pytest_output(output) ==
  LET lines == Lines(output)
  IN LocalSuite(Count(lines, LAMBDA l : HasToken(l, "PASSED")),
                Count(lines, LAMBDA l : ~HasToken(l, "PASSED") /\ HasToken(l, "FAILED")),
                output)

\* local_runner.rs parse_go_test_output
local_parse_go_test_output(output) ==
  LET lines == Lines(output)
  IN LocalSuite(Count(lines, LAMBDA l : StartsWith(l, "--- PASS:")),
                Count(lines, LAMBDA l : ~StartsWith(l, "--- PASS:")
                                        /\ StartsWith(l, "--- FAIL:")),
                output)

\* local_runner.rs parse_test_output, with its parse_cargo_test_output (the
\* statements of parse_cargo_test_plain of runner.rs, and no JSON path) and
\* its parse_generic_test_output (the first line with "passed", "failed" and
\* two numbers; no "tests:" pattern)
local_parse_test_output(harness, output) ==
  LET local_parse_cargo_test_output == parse_cargo_test_plain(output)
      lines == Lines(output)
      hits == {k \in 1..Len(lines) :
                 /\ HasToken(LowerLine(lines[k]), "passed")
                 /\ HasToken(LowerLine(lines[k]), "failed")
                 /\ Len(NumsOf(lines[k])) >= 2}
      nums == NumsOf(lines[CHOOSE k \in hits : \A j \in hits : k <= j])
      local_parse_generic_test_output ==
        IF hits = {} THEN LocalSuite(0, 0, output) ELSE LocalSuite(nums[1], nums[2], output)
  IN CASE harness = "pytest" -> local_parse_pytest_output(output)
       [] harness = "go" -> local_parse_go_test_output(output)
       [] harness = "cargo" -> local_parse_cargo_test_output
       [] harness \in {"npm", "custom"} -> local_parse_generic_test_output

(* ------------------- sandbox manager (pod_manager.rs) ----------------- *)

Pending == [kind |-> "Pending", reason |-> <<>>]

Running == [kind |-> "Running", reason |-> <<>>]

Succeeded == [kind |-> "Succeeded", reason |-> <<>>]

Unknown == [kind |-> "Unknown", reason |-> <<>>]

Failed(reason) == [kind |-> "Failed", reason |-> reason]

\* impl From<&str> for PodStatus
PodStatus_from(phase) ==
  CASE phase = "Pending" -> Pending
    [] phase = "Running" -> Running
    [] phase = "Succeeded" -> Succeeded
    [] phase = "Failed" -> Failed(<<"Pod failed">>)
    [] OTHER -> Unknown

\* a container state as the API reports it
ContainerState(terminated, waiting) == [terminated |-> terminated, waiting |-> waiting]

\* reason of a waiting container that get_pod_status reports as a failure
BadWaiting(reason) ==
  HasToken(reason, "Err") \/ HasToken(reason, "BackOff") \/ HasToken(reason, "CrashLoop")

\* the outcome of one container in the loop of get_pod_status: Some(status)
\* when the loop returns at it, None when it goes on
ContainerVerdict(cs) ==
  IF is_some(cs.terminated) /\ cs.terminated[1].exit_code # 0
    THEN Some(Failed(<<"Container exited with code ",
                       ToString(cs.terminated[1].exit_code), ": ">>
                     \o cs.terminated[1].reason))
  ELSE IF is_some(cs.waiting) /\ BadWaiting(cs.waiting[1])
    THEN Some(Failed(<<"Container waiting: ">> \o cs.waiting[1]))
  ELSE None

\* a status query that reads the phase alone
get_pod_status_by_phase(pod) ==
  IF ~is_some(pod.phase) THEN Unknown ELSE PodStatus_from(pod.phase[1])

\* PodManager::get_pod_status on the pod object the API returned
get_pod_status(pod) ==
  IF ~is_some(pod.phase) THEN Unknown
  ELSE LET verdicts == SelectSeq([k \in 1..Len(pod.container_statuses) |->
                                    ContainerVerdict(pod.container_statuses[k])],
                                 is_some)
       IN IF verdicts # <<>> THEN verdicts[1][1] ELSE PodStatus_from(pod.phase[1])

\* the pod objects the API may return to a status query
AllPodSamples ==
  { [phase |-> Some("Pending"), container_statuses |-> <<>>],
    [phase |-> Some("Running"), container_statuses |-> <<ContainerState(None, None)>>],
    [phase |-> None, container_statuses |-> <<>>],
    [phase |-> Some("Succeeded"),
     container_statuses |-> <<ContainerState(Some([exit_code |-> 0, reason |-> <<"Completed">>]), None)>>],
    [phase |-> Some("Running"),
     container_statuses |-> <<ContainerState(None, Some(<<"CrashLoop", "BackOff">>))>>] }

\* combined output of a test command: a go PASS line, a go FAIL line and
\* a pytest PASSED line
HarnessOutput ==
  << "--- PASS:", " ", "TestA", "\n",
     "--- FAIL:", " ", "TestB", "\n",
     "x", "::", "test_c", " ", "PASSED", "\n" >>

\* the texts the API may return to a log query: agent output alone, and
\* agent output followed by the marked output of the test command
AllLogSamples ==
  { <<"agent", " ", "output", "\n">>,
    <<"agent", "\n", start_marker, "\n">> \o HarnessOutput \o <<end_marker, "\n">> }

\* AgentPodConfig::pod_name; the agent ids of AgentPool are lower-case and
\* hold no '.', so replace and to_lowercase leave them as they are; the
\* run id stands for its first eight characters
pod_name(agent, run_id) == <<"anode-eval-">> \o id(agent) \o <<"-", ToString(run_id)>>

(* ------------------------------- state -------------------------------- *)

VARIABLES
  fn,           \* the function applied in a run of FnSpec, its input and output
  mode,         \* "pods": EvalRunner::run; "local": LocalEvalRunner::run_local_tests
  config,       \* the EvalConfig: prompts, agents, settings
  parallelism,  \* the parallelism argument of run
  dpc,          \* where run is: "run" (in its loops) or "done" (returned)
  handles,      \* number of job tasks spawned so far (length of handles)
  joined,       \* number of handles run has awaited
  permits,      \* permits available in the semaphore
  job,          \* per combination: the state of its task
  history,      \* per combination: the values assigned to result.status
  results,      \* the shared EvaluationResults behind the mutex
  returned,     \* what run returned: None, or Some(clone of results)
  finalized,    \* number of calls of finalize
  calls,        \* per combination: the sandbox calls issued for it
  faulty        \* the combinations whose sandbox may misbehave

\* the state of a run of EvalRunner::run or run_local_tests
runvars == <<mode, config, parallelism, dpc, handles, joined, permits, job, history,
             results, returned, finalized, calls, faulty>>

vars == <<fn, mode, config, parallelism, dpc, handles, joined, permits, job, history,
          results, returned, finalized, calls, faulty>>

\* no function has been applied
NoFn == [op |-> "none"]

Combos == combinations(config)

N == Len(Combos)

Jobs == 1..N

\* the calls issued to the API for one job: how many create, log and delete
\* calls, whether a status query was made, how many log calls succeeded,
\* and the error of the create call or status query that failed, if any
NoCalls ==
  [spawn |-> 0, status |-> FALSE, deadline |-> FALSE, logs |-> 0, logs_ok |-> 0,
   delete |-> 0, delete_ok |-> 0, pre_delete |-> None, error |-> None]

\* a task that has not been spawned, or has ended
NoTask(pc) == [pc |-> pc, result |-> None, pod_status |-> None]

\* the shapes <<number of prompts, number of agents, cleanup_on_complete>>
\* of the configurations; three combinations come with the default cleanup
ConfigShapes ==
  { <<p, a, c>> : p \in 0..1, a \in 0..1, c \in BOOLEAN }
    \cup { <<1, 2, c>> : c \in BOOLEAN }
    \cup { <<2, 1, c>> : c \in BOOLEAN }
    \cup { <<1, 3, TRUE>> }

Configs ==
  { [prompts |-> Prefix(PromptPool, sh[1]),
     agents |-> Prefix(AgentPool, sh[2]),
     cleanup_on_complete |-> sh[3]] : sh \in ConfigShapes }

Init ==
  /\ fn = NoFn
  /\ mode \in {"pods", "local"}
  /\ config \in Configs
  /\ parallelism \in IF mode = "pods" THEN {0, 1, MaxParallelism} ELSE {1}
  /\ dpc = "run"
  /\ handles = 0
  /\ joined = 0
  /\ permits = parallelism
  /\ job = [i \in Jobs |-> NoTask("idle")]
  /\ history = [i \in Jobs |-> <<>>]
  /\ results = EvaluationResults_new
  /\ returned = None
  /\ finalized = 0
  /\ calls = [i \in Jobs |-> NoCalls]
  /\ faulty \in {f \in SUBSET Jobs : Cardinality(f) <= MaxFaulty}

(* --------------------- the Kubernetes API (environment) --------------- *)

\* answers to pods.create for job i: "ok", or the message of an error
CreateAnswers(i) == {<<"ok">>} \cup (IF i \in faulty THEN ApiErrors ELSE {})

\* pod objects pods.get may return for job i
PodSamples(i) ==
  IF i \in faulty THEN AllPodSamples
  ELSE {p \in AllPodSamples : get_pod_status(p).kind # "Failed"}

\* messages of the errors pods.get may return for job i
GetErrors(i) == IF i \in faulty THEN ApiErrors ELSE {}

\* answers to pods.logs for job i: Some(text) or None for an error
LogAnswers(i) ==
  IF i \in faulty THEN {None} \cup {Some(l) : l \in AllLogSamples}
  ELSE {Some(l) : l \in {t \in AllLogSamples : is_some(extract_test_output(t))}}

\* answers to pods.delete for job i: TRUE for Ok
DeleteAnswers(i) == IF i \in faulty THEN BOOLEAN ELSE {TRUE}

\* whether the deadline of job i may elapse before its pod is terminal
MayTimeOut(i) == i \in faulty

(* ----------------------- run_single_eval (per job) -------------------- *)

PodName(i) == pod_name(Combos[i].agent, i)

\* the error spawn_pod returns when the API rejects the create call
spawn_pod_error(i, cause) ==
  context(ApiError(cause), <<"Failed to create pod: ">> \o PodName(i))

\* the error get_pod_status returns when the API rejects the get call
get_pod_status_error(i, cause) ==
  context(ApiError(cause), <<"Failed to get pod: ">> \o PodName(i))

\* a spawn error arm that leaves the result as it was
on_spawn_error_ignored(r, e) == r

\* run_single_eval, spawn error arm
on_spawn_error(r, e) == fail_with_error(r, <<"Failed to spawn pod: ">> \o Display(e))

\* a wait error arm that drops the error it was given
on_wait_error_without_text(r, e) == fail_with_error(r, <<"Error waiting for pod: ">>)

\* run_single_eval, wait error arm (before the log retrieval)
on_wait_error(r, e) == fail_with_error(r, <<"Error waiting for pod: ">> \o Display(e))

\* if let Ok(logs) = get_pod_logs(..) { result.agent_logs = Some(logs) }
\* answer is Some(text) for Ok(text), None for Err
attach_logs(r, answer) ==
  IF is_some(answer) THEN [r EXCEPT !.agent_logs = answer] ELSE r

\* a Succeeded arm that parses the whole logs when the markers are missing
on_succeeded_parsing_all_logs(r, harness, answer) ==
  IF is_some(answer)
    THEN LET logs == answer[1]
             with_logs == [r EXCEPT !.agent_logs = Some(logs)]
             test_output == extract_test_output(logs)
         IN complete_with_results(with_logs,
              parse_test_output(harness,
                IF is_some(test_output) THEN test_output[1] ELSE logs).value)
    ELSE fail_with_error(r, <<"Failed to retrieve pod logs">>)

\* the Succeeded arm of the match on pod_status, given the answer to its
\* own log query
on_succeeded(r, harness, answer) ==
  IF is_some(answer)
    THEN LET logs == answer[1]
             with_logs == [r EXCEPT !.agent_logs = Some(logs)]
             test_output == extract_test_output(logs)
         IN IF is_some(test_output)
              THEN LET parsed == parse_test_output(harness, test_output[1])
                   IN IF parsed.ok
                        THEN complete_with_results(with_logs, parsed.value)
                        ELSE fail_with_error(with_logs,
                               <<"Failed to parse test results: ">> \o Display(parsed.error))
              ELSE fail_with_error(with_logs, <<"No test output found in pod logs">>)
    ELSE fail_with_error(r, <<"Failed to retrieve pod logs">>)

\* a match that records the deadline with the status Timeout
on_not_succeeded_marking_timeout(r, status) ==
  IF status = Failed(<<"Timeout">>)
    THEN [fail_with_error(r, status.reason) EXCEPT !.status = "Timeout"]
  ELSE IF status.kind = "Failed"
    THEN fail_with_error(r, status.reason)
    ELSE fail_with_error(r, <<"Unexpected pod status: ", status.kind>>)

\* the other arms of the match on pod_status
on_not_succeeded(r, status) ==
  IF status.kind = "Failed"
    THEN fail_with_error(r, status.reason)
    ELSE fail_with_error(r, <<"Unexpected pod status: ", status.kind>>)

\* a job that always goes through the cleanup
AfterMatch_always_cleanup == "cleanup"

\* where the job goes after the match: the cleanup, if configured
AfterMatch == IF config.cleanup_on_complete THEN "cleanup" ELSE "return"

\* a wait that also returns the status it could not classify
IsTerminal_with_unknown(status) == status.kind \in {"Succeeded", "Failed", "Unknown"}

\* whether wait_for_completion returns the status it observed
IsTerminal(status) == status.kind \in {"Succeeded", "Failed"}

\* the record of one more log call for job i, with its answer
LogCall(i, answer) ==
  [calls EXCEPT ![i].logs = @ + 1,
                ![i].logs_ok = IF is_some(answer) THEN @ + 1 ELSE @]

\* a task that gives its permit back as it starts
permit_dropped_at_start(p) == p + 1

\* the permits of the semaphore as a task starts: the async move block
\* owns the permit of its combination and keeps it until drop(permit)
permit_in_task(p) == p

\* the task starts: EvalRunResult::new, then status = Running, up to the
\* call of spawn_pod (the task does not yield in between)
Start(i) ==
  /\ job[i].pc = "start"
  /\ LET c == Combos[i]
         r == EvalRunResult_new(i, c.prompt.id, id(c.agent),
                              AgentTool_to_string(c.agent.tool),
                              ModelVersion_to_string(c.agent.model))
     IN /\ job' = [job EXCEPT ![i].pc = "spawn",
                               ![i].result = Some([r EXCEPT !.status = "Running"])]
        /\ history' = [history EXCEPT ![i] = @ \o <<r.status, "Running">>]
  /\ permits' = permit_in_task(permits)
  /\ UNCHANGED <<fn, mode, config, parallelism, dpc, handles, joined, results,
                 returned, finalized, calls, faulty>>

\* pod_manager.spawn_pod(..).await and its match
SpawnPod(i) ==
  /\ job[i].pc = "spawn"
  /\ \/ /\ <<"ok">> \in CreateAnswers(i)
        /\ calls' = [calls EXCEPT ![i].spawn = @ + 1]
        /\ job' = [job EXCEPT ![i].pc = "wait"]
        /\ UNCHANGED history
     \/ \E cause \in CreateAnswers(i) \ {<<"ok">>} :
          LET r == on_spawn_error(job[i].result[1], spawn_pod_error(i, cause))
          IN /\ calls' = [calls EXCEPT ![i].spawn = @ + 1,
                                       ![i].error = Some([op |-> "spawn", cause |-> cause])]
             /\ job' = [job EXCEPT ![i].pc = "return", ![i].result = Some(r)]
             /\ history' = [history EXCEPT ![i] = Append(@, r.status)]
  /\ UNCHANGED <<fn, mode, config, parallelism, dpc, handles, joined, permits, results,
                 returned, finalized, faulty>>

\* one turn of the loop of wait_for_completion: a status query and its match
Poll(i) ==
  /\ job[i].pc = "wait"
  /\ \/ \E pod \in PodSamples(i) :
          LET status == get_pod_status(pod)
          IN /\ calls' = [calls EXCEPT ![i].status = TRUE]
             /\ job' = IF IsTerminal(status)
                         THEN [job EXCEPT ![i].pc = "logs",
                                          ![i].pod_status = Some(status)]
                         ELSE job
             /\ UNCHANGED history
     \/ \E cause \in GetErrors(i) :
          LET r == on_wait_error(job[i].result[1], get_pod_status_error(i, cause))
          IN /\ calls' = [calls EXCEPT ![i].status = TRUE,
                                       ![i].error = Some([op |-> "status", cause |-> cause])]
             /\ job' = [job EXCEPT ![i].pc = "logs_after_error", ![i].result = Some(r)]
             /\ history' = [history EXCEPT ![i] = Append(@, r.status)]
  /\ UNCHANGED <<fn, mode, config, parallelism, dpc, handles, joined, permits, results,
                 returned, finalized, faulty>>

\* a deadline reported as the failure of the pod's phase
timeout_status_as_pod_failed == Failed(<<"Pod failed">>)

\* what wait_for_completion returns when max_duration elapses
timeout_status == Failed(<<"Timeout">>)

\* max_duration elapses in wait_for_completion: Ok(Failed("Timeout"))
Deadline(i) ==
  /\ job[i].pc = "wait"
  /\ MayTimeOut(i)
  /\ job' = [job EXCEPT ![i].pc = "logs", ![i].pod_status = Some(timeout_status)]
  /\ calls' = [calls EXCEPT ![i].deadline = TRUE]
  /\ UNCHANGED <<fn, mode, config, parallelism, dpc, handles, joined, permits, history,
                 results, returned, finalized, faulty>>

\* the log query of the wait error arm, then return
LogsAfterError(i) ==
  /\ job[i].pc = "logs_after_error"
  /\ \E answer \in LogAnswers(i) :
       /\ calls' = LogCall(i, answer)
       /\ job' = [job EXCEPT ![i].pc = "return",
                             ![i].result = Some(attach_logs(job[i].result[1], answer))]
  /\ UNCHANGED <<fn, mode, config, parallelism, dpc, handles, joined, permits, history,
                 results, returned, finalized, faulty>>

\* the log query after the wait, and the match on pod_status up to its
\* next await
GetLogs(i) ==
  /\ job[i].pc = "logs"
  /\ \E answer \in LogAnswers(i) :
       LET with_logs == attach_logs(job[i].result[1], answer)
           status == job[i].pod_status[1]
       IN /\ calls' = LogCall(i, answer)
          /\ IF status.kind = "Succeeded"
               THEN /\ job' = [job EXCEPT ![i].pc = "parse", ![i].result = Some(with_logs)]
                    /\ UNCHANGED history
               ELSE LET r == on_not_succeeded(with_logs, status)
                    IN /\ job' = [job EXCEPT ![i].pc = AfterMatch, ![i].result = Some(r)]
                       /\ history' = [history EXCEPT ![i] = Append(@, r.status)]
  /\ UNCHANGED <<fn, mode, config, parallelism, dpc, handles, joined, permits, results,
                 returned, finalized, faulty>>

\* the log query of the Succeeded arm, extraction and parsing
ParseLogs(i) ==
  /\ job[i].pc = "parse"
  /\ \E answer \in LogAnswers(i) :
       LET r == on_succeeded(job[i].result[1], Combos[i].prompt.test_harness, answer)
       IN /\ calls' = LogCall(i, answer)
          /\ job' = [job EXCEPT ![i].pc = AfterMatch, ![i].result = Some(r)]
          /\ history' = [history EXCEPT ![i] = Append(@, r.status)]
  /\ UNCHANGED <<fn, mode, config, parallelism, dpc, handles, joined, permits, results,
                 returned, finalized, faulty>>

\* a cleanup that records a failed delete in the result
on_delete_failing_the_run(r, ok) ==
  IF ok THEN r ELSE fail_with_error(r, <<"Failed to cleanup pod">>)

\* if let Err(e) = delete_pod(..) { warn!(..) }: the result as the cleanup
\* leaves it, ok being whether the delete returned Ok
on_delete(r, ok) == r

\* pod_manager.delete_pod(..).await; an error is only logged
DeletePod(i) ==
  /\ job[i].pc = "cleanup"
  /\ \E ok \in DeleteAnswers(i) :
       /\ calls' = [calls EXCEPT ![i].delete = @ + 1,
                                 ![i].delete_ok = IF ok THEN @ + 1 ELSE @,
                                 ![i].pre_delete = job[i].result]
       /\ job' = [job EXCEPT ![i].pc = "return",
                             ![i].result = Some(on_delete(job[i].result[1], ok))]
  /\ UNCHANGED <<fn, mode, config, parallelism, dpc, handles, joined, permits, history,
                 results, returned, finalized, faulty>>

\* run_single_eval has returned: results.lock().await.add_run(result), then
\* drop(permit) and the end of the task (the task does not yield after the
\* lock is taken)
AddRun(i) ==
  /\ job[i].pc = "return"
  /\ results' = add_run(results, job[i].result[1])
  /\ permits' = permits + 1
  /\ job' = [job EXCEPT ![i] = NoTask("finished")]
  /\ UNCHANGED <<fn, mode, config, parallelism, dpc, handles, joined, history,
                 returned, finalized, calls, faulty>>

(* ------------------------- EvalRunner::run ---------------------------- *)

\* a semaphore whose acquire never waits
CanAcquire_never_waits == TRUE

\* semaphore.acquire_owned().await completes only when a permit is free
CanAcquire == permits > 0

\* one turn of the dispatch loop: acquire a permit, spawn the job's task
Dispatch ==
  /\ mode = "pods"
  /\ dpc = "run"
  /\ handles < N
  /\ CanAcquire
  /\ permits' = permits - 1
  /\ handles' = handles + 1
  /\ job' = [job EXCEPT ![handles + 1].pc = "start"]
  /\ UNCHANGED <<fn, mode, config, parallelism, dpc, joined, history, results, returned,
                 finalized, calls, faulty>>

\* a join that does not wait for the task
CanJoin_without_waiting(i) == TRUE

\* handle.await of the join loop completes when that task has ended
CanJoin(i) == job[i].pc = "finished"

\* one turn of the join loop
Join ==
  /\ mode = "pods"
  /\ dpc = "run"
  /\ handles = N
  /\ joined < N
  /\ CanJoin(joined + 1)
  /\ joined' = joined + 1
  /\ UNCHANGED <<fn, mode, config, parallelism, dpc, handles, permits, job, history,
                 results, returned, finalized, calls, faulty>>

\* after the join loop: lock, finalize, return a clone
Finalize ==
  /\ mode = "pods"
  /\ dpc = "run"
  /\ handles = N
  /\ joined = N
  /\ results' = finalize(results)
  /\ finalized' = finalized + 1
  /\ returned' = Some(results')
  /\ dpc' = "done"
  /\ UNCHANGED <<fn, mode, config, parallelism, handles, joined, permits, job, history,
                 calls, faulty>>

(* ----------------- LocalEvalRunner::run_local_tests ------------------- *)

\* outcomes of running the test command of job i locally: Some(combined
\* output), or None when the command could not be run
LocalOutcomes(i) ==
  IF i \in faulty THEN {None, Some(HarnessOutput), Some(<<"no", " ", "tests", "\n">>)}
  ELSE {Some(HarnessOutput)}

\* the io::Error of a command that could not be run
CommandErrors == { <<"No such file or directory (os error 2)">> }

\* run_local_test_harness: Err(e), or the parse of the combined output
run_local_test_harness(harness, outcome) ==
  IF is_some(outcome)
    THEN local_parse_test_output(harness, outcome[1])
    ELSE [ok |-> FALSE, error |-> ApiError(CHOOSE m \in CommandErrors : TRUE), value |-> <<>>]

\* the match of run_single_local on the harness outcome
on_local_outcome(r, harness_result) ==
  IF harness_result.ok
    THEN complete_with_results(r, harness_result.value)
    ELSE fail_with_error(r, <<"Test execution failed: ">> \o Display(harness_result.error))

\* the combination the loop of run_local_tests is at
LocalAt(i) == mode = "local" /\ dpc = "run" /\ i = Len(results.runs) + 1

\* run_single_local: EvalRunResult::new
LocalStart(i) ==
  /\ LocalAt(i)
  /\ job[i].pc = "idle"
  /\ LET c == Combos[i]
         r == EvalRunResult_new(i, c.prompt.id, id(c.agent),
                              AgentTool_to_string(c.agent.tool),
                              ModelVersion_to_string(c.agent.model))
     IN /\ job' = [job EXCEPT ![i].pc = "l_created", ![i].result = Some(r)]
        /\ history' = [history EXCEPT ![i] = Append(@, r.status)]
  /\ UNCHANGED <<fn, mode, config, parallelism, dpc, handles, joined, permits, results,
                 returned, finalized, calls, faulty>>

\* run_single_local: result.status = RunStatus::Running
LocalSetRunning(i) ==
  /\ LocalAt(i)
  /\ job[i].pc = "l_created"
  /\ job' = [job EXCEPT ![i].pc = "l_harness", ![i].result[1].status = "Running"]
  /\ history' = [history EXCEPT ![i] = Append(@, "Running")]
  /\ UNCHANGED <<fn, mode, config, parallelism, dpc, handles, joined, permits, results,
                 returned, finalized, calls, faulty>>

\* run_single_local: the test command is run and its outcome matched
LocalHarness(i) ==
  /\ LocalAt(i)
  /\ job[i].pc = "l_harness"
  /\ \E outcome \in LocalOutcomes(i) :
       LET r == on_local_outcome(job[i].result[1],
                  run_local_test_harness(Combos[i].prompt.test_harness, outcome))
       IN /\ job' = [job EXCEPT ![i].pc = "l_return", ![i].result = Some(r)]
          /\ history' = [history EXCEPT ![i] = Append(@, r.status)]
  /\ UNCHANGED <<fn, mode, config, parallelism, dpc, handles, joined, permits, results,
                 returned, finalized, calls, faulty>>

\* run_local_tests: results.lock().await.add_run(result)
LocalAddRun(i) ==
  /\ LocalAt(i)
  /\ job[i].pc = "l_return"
  /\ results' = add_run(results, job[i].result[1])
  /\ job' = [job EXCEPT ![i] = NoTask("finished")]
  /\ UNCHANGED <<fn, mode, config, parallelism, dpc, handles, joined, permits, history,
                 returned, finalized, calls, faulty>>

\* run_local_tests after its loop: lock, finalize, return a clone
LocalFinalize ==
  /\ mode = "local"
  /\ dpc = "run"
  /\ Len(results.runs) = N
  /\ results' = finalize(results)
  /\ finalized' = finalized + 1
  /\ returned' = Some(results')
  /\ dpc' = "done"
  /\ UNCHANGED <<fn, mode, config, parallelism, handles, joined, permits, job, history,
                 calls, faulty>>

Next ==
  \/ Dispatch
  \/ Join
  \/ Finalize
  \/ \E i \in Jobs : Start(i)
  \/ \E i \in Jobs : SpawnPod(i)
  \/ \E i \in Jobs : Poll(i)
  \/ \E i \in Jobs : Deadline(i)
  \/ \E i \in Jobs : LogsAfterError(i)
  \/ \E i \in Jobs : GetLogs(i)
  \/ \E i \in Jobs : ParseLogs(i)
  \/ \E i \in Jobs : DeletePod(i)
  \/ \E i \in Jobs : AddRun(i)
  \/ \E i \in Jobs : LocalStart(i)
  \/ \E i \in Jobs : LocalSetRunning(i)
  \/ \E i \in Jobs : LocalHarness(i)
  \/ \E i \in Jobs : LocalAddRun(i)
  \/ LocalFinalize

Spec == Init /\ [][Next]_vars


(* ===================== properties of EvalRunner::run ================== *)

\* the pcs at which a job's task holds its semaphore permit
PermitPcs ==
  {"start", "spawn", "wait", "logs", "logs_after_error", "parse",
   "cleanup", "return"}

HoldsPermit(i) == job[i].pc \in PermitPcs

Held == Cardinality({i \in Jobs : HoldsPermit(i)})

InSpawn == Cardinality({i \in Jobs : job[i].pc = "spawn"})

\* the rows of job i in a sequence of runs
RowsOf(runs, i) == SelectSeq(runs, LAMBDA r : r.run_id = i)

\* the result of job i: the one its task holds, or the one it appended
HasResult(i) == is_some(job[i].result) \/ RowsOf(results.runs, i) # <<>>

ResultOf(i) ==
  IF is_some(job[i].result) THEN job[i].result[1] ELSE RowsOf(results.runs, i)[1]

SpawnFailed(i) ==
  is_some(calls[i].error) /\ calls[i].error[1].op = "spawn"

StatusFailed(i) ==
  is_some(calls[i].error) /\ calls[i].error[1].op = "status"

RunReturned == mode = "pods" /\ dpc = "done"

\* C1: with parallelism P, the number of jobs that have acquired a permit
\* and not yet released it, and so the number of spawn calls in flight,
\* never exceeds P, for any number of combinations.
C1_AtMostPInFlight ==
  mode = "pods" =>
    /\ Held <= parallelism
    /\ InSpawn <= parallelism
    /\ permits >= 0

\* C1 witness: three times as many combinations as permits, every permit
\* held, a spawn call in flight, and combinations still to dispatch
C1_Witness ==
  /\ mode = "pods"
  /\ parallelism >= 1
  /\ N >= 3 * parallelism
  /\ Held = parallelism
  /\ InSpawn >= 1
  /\ handles >= 2
  /\ handles < N

\* C2: when run returns, the results hold exactly one EvalRunResult per
\* combination, |prompts| * |agents| of them, and summary.total_combinations
\* is that number, whatever mix of jobs failed.
C2_OneRunPerCombination ==
  RunReturned =>
    LET runs == returned[1].runs
    IN /\ Len(runs) = Len(config.prompts) * Len(config.agents)
       /\ \A i \in Jobs :
            /\ Len(RowsOf(runs, i)) = 1
            /\ RowsOf(runs, i)[1].prompt_id = Combos[i].prompt.id
            /\ RowsOf(runs, i)[1].agent_id = id(Combos[i].agent)
       /\ returned[1].summary.total_combinations = Len(runs)

\* C2 witness: run has returned three rows, one Failed and one Completed
C2_Witness ==
  /\ RunReturned
  /\ N = 3
  /\ \E k \in 1..Len(returned[1].runs) : returned[1].runs[k].status = "Failed"
  /\ \E k \in 1..Len(returned[1].runs) : returned[1].runs[k].status = "Completed"

\* the row of a job whose sandbox runs without any fault
HealthyRow(i) ==
  LET c == Combos[i]
      r0 == EvalRunResult_new(i, c.prompt.id, id(c.agent),
                              AgentTool_to_string(c.agent.tool),
                              ModelVersion_to_string(c.agent.model))
      r1 == [r0 EXCEPT !.status = "Running"]
      answer == CHOOSE a \in LogAnswers(i) : TRUE
  IN on_succeeded(attach_logs(r1, answer), c.prompt.test_harness, answer)

\* C3: when the spawn of a combination fails, run still returns full
\* results: that combination's row is Failed, every other combination was
\* dispatched and ran its own lifecycle, and the rows of the combinations
\* whose sandbox has no fault are the rows they get without the failure.
C3_SpawnFailureIsIsolated ==
  RunReturned =>
    /\ Len(returned[1].runs) = N
    /\ \A i \in Jobs :
         /\ Len(RowsOf(returned[1].runs, i)) = 1
         /\ calls[i].spawn = 1
         /\ SpawnFailed(i) => RowsOf(returned[1].runs, i)[1].status = "Failed"
         /\ i \notin faulty => RowsOf(returned[1].runs, i)[1] = HealthyRow(i)

\* C3 witness: run has returned, one spawn failed, a sibling completed
C3_Witness ==
  /\ RunReturned
  /\ \E i, j \in Jobs :
       /\ i # j
       /\ SpawnFailed(i)
       /\ RowsOf(returned[1].runs, i)[1].status = "Failed"
       /\ RowsOf(returned[1].runs, j)[1].status = "Completed"

\* the dispatch loop waits for a permit that no task holds, so none will
\* ever be released
Starved ==
  /\ mode = "pods"
  /\ dpc = "run"
  /\ handles < N
  /\ ~CanAcquire
  /\ Held = 0

\* C4: run eventually returns for every configuration and every
\* parallelism: the dispatch loop never waits for a permit that no task
\* holds.
C4_DispatcherNeverStarved == ~Starved

\* no step leaves a state in which the dispatch loop is starved
C4_StarvedIsFinal == [][~Starved]_vars

\* the dispatch loop is starved only when the semaphore has no permits
C4_StarvedOnlyWithoutPermits == Starved => parallelism = 0

\* C5: finalize is called exactly once, only after every job's task has
\* ended and appended its result; nothing is appended after it, and
\* completed_at of the results is unset until that call.
C5_FinalizeOnceAtTheEnd ==
  /\ finalized <= 1
  /\ (finalized = 1) <=> (dpc = "done")
  /\ finalized = 1 =>
       /\ \A i \in Jobs : job[i].pc = "finished"
       /\ Len(results.runs) = N
       /\ \A i \in Jobs : Len(RowsOf(results.runs, i)) = 1
       /\ returned = Some(results)
  /\ is_some(results.completed_at) <=> finalized = 1

\* C5 witness: finalize has been called after three concurrent jobs
C5_Witness ==
  /\ RunReturned
  /\ finalized = 1
  /\ N = 3
  /\ parallelism = 2
  /\ is_some(returned[1].completed_at)

(* ================= properties of each EvalRunResult ================== *)

\* every EvalRunResult there is: held by a task, appended, or returned
AllResults ==
  {job[i].result[1] : i \in {j \in Jobs : is_some(job[j].result)}}
    \cup {results.runs[k] : k \in 1..Len(results.runs)}
    \cup (IF is_some(returned)
            THEN {returned[1].runs[k] : k \in 1..Len(returned[1].runs)}
            ELSE {})

IsPrefix(s, t) == Len(s) <= Len(t) /\ s = SubSeq(t, 1, Len(s))

\* C6: every EvalRunResult of run_single_eval and of run_single_local
\* starts Pending, is set Running once, then takes one terminal status
\* and never changes again: the statuses written to it are, in order,
\* Pending, Running, one terminal status.
C6_StatusLifecycle ==
  \A i \in Jobs :
    /\ \E t \in RunStatuses \ {"Pending", "Running"} :
         IsPrefix(history[i], <<"Pending", "Running", t>>)
    /\ HasResult(i) =>
         /\ history[i] # <<>>
         /\ ResultOf(i).status = history[i][Len(history[i])]
    /\ job[i].pc \in {"return", "finished", "l_return"} => Len(history[i]) = 3

\* C6 witness: the local run has returned a Completed row and a Failed
\* row, each after its three status writes
C6_Witness ==
  /\ mode = "local"
  /\ dpc = "done"
  /\ \E i, j \in Jobs :
       /\ history[i] = <<"Pending", "Running", "Completed">>
       /\ history[j] = <<"Pending", "Running", "Failed">>
       /\ ResultOf(i).status = "Completed"
       /\ ResultOf(j).status = "Failed"

\* C7: completed_at of an EvalRunResult is set exactly when its status is
\* neither Pending nor Running.
C7_CompletedAtIffTerminal ==
  \A r \in AllResults :
    is_some(r.completed_at) <=> r.status \notin {"Pending", "Running"}

\* C7 witness: a Running result without completed_at beside a Completed
\* and a Failed result with it
C7_Witness ==
  /\ \E r \in AllResults : r.status = "Running" /\ ~is_some(r.completed_at)
  /\ \E r \in AllResults : r.status = "Completed" /\ is_some(r.completed_at)
  /\ \E r \in AllResults : r.status = "Failed" /\ is_some(r.completed_at)

\* C8: score of an EvalRunResult is set exactly when its status is
\* Completed, Failed or Timeout.
C8_ScoreIffScored ==
  \A r \in AllResults :
    is_some(r.score) <=> r.status \in {"Completed", "Failed", "Timeout"}

\* C8 witness: a Pending result without a score beside a Completed result
\* with its pass rate and a Failed result with score zero
C8_Witness ==
  /\ \E r \in AllResults : r.status = "Pending" /\ ~is_some(r.score)
  /\ \E r \in AllResults :
       r.status = "Completed" /\ r.score = Some(pass_rate(r.test_results[1]))
  /\ \E r \in AllResults : r.status = "Failed" /\ r.score = Some(Zero)

(* ==================== error handling of run_single_eval =============== *)

\* what run_single_eval does after a spawn error, the error text aside
SpawnErrorEndsTheJob(i) ==
  /\ ResultOf(i).status = "Failed"
  /\ is_some(ResultOf(i).error)
  /\ calls[i].spawn = 1
  /\ ~calls[i].status
  /\ calls[i].logs = 0
  /\ calls[i].delete = 0

\* C9: after a spawn error the result is Failed with an error text that
\* includes the underlying cause (the error of the API), spawn is not
\* retried, and no status, logs or delete call is made for the job.
C9_SpawnErrorReportsCause ==
  \A i \in Jobs :
    SpawnFailed(i) =>
      /\ SpawnErrorEndsTheJob(i)
      /\ Contains(ResultOf(i).error[1], calls[i].error[1].cause)

\* after a spawn error the result is Failed, its text is that of the
\* outermost context of the error, and no further call is made
C9_SpawnErrorReportsContext ==
  \A i \in Jobs :
    SpawnFailed(i) =>
      /\ SpawnErrorEndsTheJob(i)
      /\ ResultOf(i).error[1] = <<"Failed to spawn pod: ", "Failed to create pod: ">> \o PodName(i)

\* C10: after a status query error the wait has ended, the result is
\* Failed with a text containing the text of the error the query returned,
\* one log retrieval is made before the result is returned and its logs
\* are attached exactly when it succeeds; and every job whose spawn
\* succeeded has made a log retrieval when it returns.
C10_PollErrorStillFetchesLogs ==
  \A i \in Jobs :
    /\ StatusFailed(i) =>
         /\ job[i].pc \notin {"wait", "logs", "parse", "cleanup"}
         /\ ResultOf(i).status = "Failed"
         /\ Contains(ResultOf(i).error[1],
                     Display(get_pod_status_error(i, calls[i].error[1].cause)))
         /\ calls[i].delete = 0
         /\ job[i].pc # "logs_after_error" =>
              /\ calls[i].logs = 1
              /\ is_some(ResultOf(i).agent_logs) <=> calls[i].logs_ok = 1
    /\ (calls[i].spawn = 1 /\ ~SpawnFailed(i)
          /\ job[i].pc \in {"return", "finished"}) => calls[i].logs >= 1

\* C10 witness: a status query failed, the logs were retrieved and are in
\* the Failed row that was returned
C10_Witness ==
  /\ RunReturned
  /\ \E i \in Jobs :
       /\ StatusFailed(i)
       /\ calls[i].logs = 1
       /\ calls[i].logs_ok = 1
       /\ RowsOf(returned[1].runs, i)[1].status = "Failed"
       /\ is_some(RowsOf(returned[1].runs, i)[1].agent_logs)

(* =================== timeouts and cleanup of a job =================== *)

\* the job has left the match on pod_status (or returned before it)
PastMatch(i) == job[i].pc \in {"cleanup", "return", "finished"}

\* the row of job i in the results run returned
ReturnedRow(i) == RowsOf(returned[1].runs, i)[1]

\* C11: when the deadline of a job elapses while polling, the wait returns
\* Failed("Timeout") and the job is recorded Failed with the error text
\* "Timeout" exactly; no job without an elapsed deadline has that text, and
\* the rows of the jobs whose sandbox has no fault are unaffected.
C11_TimeoutIsItsOwnFailure ==
  /\ \A i \in Jobs :
       /\ (calls[i].deadline /\ job[i].pc = "logs") =>
            job[i].pod_status = Some(Failed(<<"Timeout">>))
       /\ (calls[i].deadline /\ PastMatch(i)) =>
            /\ ResultOf(i).status = "Failed"
            /\ ResultOf(i).error = Some(<<"Timeout">>)
       /\ (HasResult(i) /\ ResultOf(i).error = Some(<<"Timeout">>)) => calls[i].deadline
  /\ RunReturned => \A i \in Jobs \ faulty : ReturnedRow(i) = HealthyRow(i)

\* C11 witness: run has returned the row of a job that hit its deadline
\* beside the Completed row of a sibling
C11_Witness ==
  /\ RunReturned
  /\ \E i, j \in Jobs :
       /\ i # j
       /\ calls[i].deadline
       /\ ReturnedRow(i).error = Some(<<"Timeout">>)
       /\ ReturnedRow(j).status = "Completed"

\* C12: reaching the deadline deletes nothing: a job that hit its deadline
\* has no delete call made for it up to the cleanup step, and when it
\* returns one delete call has been made if cleanup_on_complete is set
\* and none otherwise.
C12_TimeoutDeletesOnlyInCleanup ==
  \A i \in Jobs :
    calls[i].deadline =>
      /\ job[i].pc \in {"logs", "cleanup"} => calls[i].delete = 0
      /\ job[i].pc \in {"return", "finished"} =>
           calls[i].delete = (IF config.cleanup_on_complete THEN 1 ELSE 0)
      /\ calls[i].delete_ok <= calls[i].delete

\* C12 witness: a job that hit its deadline has returned without a delete
\* call, cleanup_on_complete being off
C12_Witness ==
  /\ ~config.cleanup_on_complete
  /\ \E i \in Jobs :
       /\ calls[i].deadline
       /\ job[i].pc = "finished"
       /\ calls[i].delete = 0

\* a job that hit its deadline has returned after its one delete call,
\* cleanup_on_complete being on
C12_WitnessWithCleanup ==
  /\ config.cleanup_on_complete
  /\ \E i \in Jobs :
       /\ calls[i].deadline
       /\ job[i].pc = "finished"
       /\ calls[i].delete = 1
       /\ calls[i].delete_ok = 1

\* the text holds a start marker and, somewhere after it, an end marker
MarkersInOrder(text) ==
  \E a, b \in 1..Len(text) :
    a < b /\ text[a] = start_marker /\ text[b] = end_marker

NoTestOutput == <<"No test output found in pod logs">>

LogsNotRetrieved == <<"Failed to retrieve pod logs">>

\* the wait of job i returned Succeeded and the job has left the match
SucceededPastMatch(i) ==
  /\ job[i].pc \in {"cleanup", "return"}
  /\ job[i].pod_status = Some(Succeeded)

\* C13: when the sandbox ended Succeeded and the logs retrieved in that arm
\* do not hold TEST_OUTPUT_START followed later by TEST_OUTPUT_END, the run
\* is Failed with the error "No test output found in pod logs" exactly;
\* a run is Completed only when the sandbox Succeeded and the logs hold
\* both markers in order.
C13_MissingMarkersFailTheRun ==
  \A i \in Jobs :
    /\ SucceededPastMatch(i) =>
         LET r == ResultOf(i)
         IN /\ calls[i].logs = 2
            /\ r.error = Some(LogsNotRetrieved) => calls[i].logs_ok <= 1
            /\ r.error # Some(LogsNotRetrieved) =>
                 /\ is_some(r.agent_logs)
                 /\ IF MarkersInOrder(r.agent_logs[1])
                      THEN r.status = "Completed" /\ r.error = None
                      ELSE r.status = "Failed" /\ r.error = Some(NoTestOutput)
    /\ (mode = "pods" /\ HasResult(i) /\ ResultOf(i).status = "Completed") =>
         /\ is_some(ResultOf(i).agent_logs)
         /\ MarkersInOrder(ResultOf(i).agent_logs[1])
         /\ calls[i].status /\ ~calls[i].deadline /\ calls[i].error = None
         /\ job[i].pc \in {"cleanup", "return"} => job[i].pod_status = Some(Succeeded)

\* C13 witness: a sandbox ended Succeeded, both log retrievals succeeded,
\* the logs lack the markers and the run is Failed with that error
C13_Witness ==
  \E i \in Jobs :
    /\ SucceededPastMatch(i)
    /\ calls[i].logs_ok = 2
    /\ ~MarkersInOrder(ResultOf(i).agent_logs[1])
    /\ ResultOf(i).status = "Failed"
    /\ ResultOf(i).error = Some(NoTestOutput)

\* C14: when cleanup is enabled and the delete fails, the failure changes
\* nothing in the run: its result is what a successful delete of the same
\* job leaves (the result as it was before the delete), it is appended
\* like any other, and the jobs without a fault get their fault-free rows.
C14_FailedDeleteChangesNothing ==
  /\ \A i \in Jobs :
       calls[i].delete >= 1 =>
         /\ config.cleanup_on_complete
         /\ calls[i].delete = 1
         /\ HasResult(i)
         /\ ResultOf(i) = on_delete(calls[i].pre_delete[1], TRUE)
         /\ ResultOf(i) = calls[i].pre_delete[1]
  /\ RunReturned =>
       /\ Len(returned[1].runs) = N
       /\ \A i \in Jobs \ faulty : ReturnedRow(i) = HealthyRow(i)

\* C14 witness: run has returned; the delete of a Completed job failed and
\* a sibling completed too
C14_Witness ==
  /\ RunReturned
  /\ \E i, j \in Jobs :
       /\ i # j
       /\ calls[i].delete = 1
       /\ calls[i].delete_ok = 0
       /\ ReturnedRow(i).status = "Completed"
       /\ is_some(ReturnedRow(i).test_results)
       /\ ReturnedRow(j).status = "Completed"

(* ============ the pure functions, each applied to its inputs ========= *)

\* all sequences over alphabet of length at most n
SeqsUpTo(alphabet, n) == UNION {[1..k -> alphabet] : k \in 0..n}

\* the texts given to extract_test_output
MarkerTexts == SeqsUpTo({start_marker, end_marker, " ", "x"}, MaxTextLen)

\* the state in which a function is applied: no run is in progress
FnInit ==
  /\ fn = NoFn
  /\ mode = "pods"
  /\ config = [prompts |-> <<>>, agents |-> <<>>, cleanup_on_complete |-> TRUE]
  /\ parallelism = 1
  /\ dpc = "run"
  /\ handles = 0
  /\ joined = 0
  /\ permits = 1
  /\ job = <<>>
  /\ history = <<>>
  /\ results = EvaluationResults_new
  /\ returned = None
  /\ finalized = 0
  /\ calls = <<>>
  /\ faulty = {}

\* extract_test_output(logs)
ApplyExtract ==
  /\ fn = NoFn
  /\ \E logs \in MarkerTexts :
       fn' = [op |-> "extract_test_output", input |-> logs,
              output |-> extract_test_output(logs)]
  /\ UNCHANGED runvars

\* a TestSuiteResult with the given counts
Suite(total, passed, failed, skipped) ==
  [ total |-> total, passed |-> passed, failed |-> failed, skipped |-> skipped,
    tests |-> <<>>, raw_output |-> <<>> ]

\* the TestSuiteResults given to complete_with_results: any counts
SuiteInputs ==
  { Suite(t, p, f, k) : t \in 0..MaxCount, p \in 0..MaxCount,
                        f \in 0..MaxCount, k \in 0..MaxCount }

\* the runs complete_with_results and fail_with_error are called on: new,
\* Running, already Completed, already Failed
RunInputs ==
  LET new == EvalRunResult_new(1, "p1", id(AgentPool[1]),
                               AgentTool_to_string(AgentPool[1].tool),
                               ModelVersion_to_string(AgentPool[1].model))
      running == [new EXCEPT !.status = "Running"]
  IN { new, running,
       complete_with_results(running, Suite(2, 1, 1, 0)),
       fail_with_error(running, <<"Timeout">>) }

\* the messages given to fail_with_error
MessageInputs == { <<>>, <<"boom">>, <<"No test output found in pod logs">> }

\* the TestSuiteResults given to pass_rate
RateInputs == { Suite(t, p, 0, 0) : t \in 0..MaxTests, p \in 0..MaxTests }

\* r.complete_with_results(test_results)
ApplyComplete ==
  /\ fn = NoFn
  /\ \E r \in RunInputs, t \in SuiteInputs :
       fn' = [op |-> "complete_with_results", input |-> <<r, t>>,
              output |-> complete_with_results(r, t)]
  /\ UNCHANGED runvars

\* r.fail_with_error(error)
ApplyFail ==
  /\ fn = NoFn
  /\ \E r \in RunInputs, e \in MessageInputs :
       fn' = [op |-> "fail_with_error", input |-> <<r, e>>,
              output |-> fail_with_error(r, e)]
  /\ UNCHANGED runvars

\* t.pass_rate()
ApplyPassRate ==
  /\ fn = NoFn
  /\ \E t \in RateInputs :
       fn' = [op |-> "pass_rate", input |-> t, output |-> pass_rate(t)]
  /\ UNCHANGED runvars

\* summary lines of a test command: the two patterns of the generic
\* parser in several wordings, and lines that match neither
SummaryLines ==
  { <<a, " ", "passed", ",", " ", b, " ", "failed">> :
      a \in Numerals, b \in Numerals }
  \cup { <<"Tests:", " ", a, " ", "skipped", ",", " ", b, " ", "passed", ",",
           " ", c, " ", "total">> :
           a \in Numerals, b \in Numerals, c \in Numerals }
  \cup { <<"Tests:", " ", a, " ", "Passed", ",", " ", b, " ", "FAILED", ",",
           " ", c, " ", "total">> :
           a \in Numerals, b \in Numerals, c \in Numerals }
  \cup { <<"tests:", " ", "passed", " ", a, ",", " ", "failed">> : a \in Numerals }
  \cup { <<"Tests:", " ", a>> : a \in Numerals }
  \cup { <<"ok">>, <<"passed", " ", "and", " ", "failed">> }

\* the texts given to the parsers: one summary line, a summary line after
\* another line, and the output of the go and pytest commands
ParserTexts ==
  SummaryLines
  \cup { first \o <<"\n">> \o line :
           first \in { <<"ok">>, <<"1", " ", "passed", ",", " ", "0", " ", "failed">> },
           line \in SummaryLines }
  \cup { <<>>, HarnessOutput }

\* lines of cargo test: plain result lines (passed, failed, both marks in
\* either order, a name of two words, ignored), the summary, a line that
\* does not start with "test ", and JSON events (passed, failed, started,
\* a suite event, an event without a name, one whose type is no string, one
\* cut short)
CargoLines ==
  LET \* a JSON string: a quote, its content, a quote
      JsonStr(text) == <<"\"", text, "\"">>
      \* a JSON object of two or three members
      JsonObj2(k1, v1, k2, v2) ==
        <<"{">> \o JsonStr(k1) \o <<":">> \o v1 \o <<",", " ">>
                \o JsonStr(k2) \o <<":">> \o v2 \o <<"}">>
      JsonObj3(k1, v1, k2, v2, k3, v3) ==
        <<"{">> \o JsonStr(k1) \o <<":">> \o v1 \o <<",", " ">>
                \o JsonStr(k2) \o <<":">> \o v2 \o <<",", " ">>
                \o JsonStr(k3) \o <<":">> \o v3 \o <<"}">>
  IN
      { <<"test", " ", "a", " ", "...", " ", "ok">>,
        <<"test", " ", "b", " ", "...", " ", "FAILED">>,
        <<"test", " ", "c", " ", "...", " ", "ok", " ", "...", " ", "FAILED">>,
        <<"test", " ", "d", " ", "...", " ", "FAILED", " ", "...", " ", "ok">>,
        <<"test", " ", "e", " ", "f", " ", "...", " ", "ok">>,
        <<"test", " ", "g", " ", "...", " ", "ignored">>,
        <<"test", " ", "result:", " ", "ok.", " ", "2", " ", "passed">>,
        <<" ", "test", " ", "h", " ", "...", " ", "ok">>,
        JsonObj3("type", JsonStr("test"), "event", JsonStr("ok"), "name", JsonStr("t1")),
        JsonObj3("type", JsonStr("test"), "name", JsonStr("t2"), "event", JsonStr("failed")),
        JsonObj3("type", JsonStr("test"), "event", JsonStr("started"), "name", JsonStr("t1")),
        JsonObj2("type", JsonStr("suite"), "event", JsonStr("ok")),
        JsonObj2("type", JsonStr("test"), "event", JsonStr("ok")),
        JsonObj3("type", <<"1">>, "event", JsonStr("ok"), "name", JsonStr("t3")),
        <<"{">> \o JsonStr("type") \o <<":">> \o JsonStr("test") }

\* lines of pytest: passed, failed, skipped, a line with PASSED and FAILED,
\* a summary line that starts with FAILED, a name after two "::", a line
\* that ends with "::", a line that is the verdict only, a line without a
\* verdict
PytestLines ==
  { <<"x.py", "::", "test_a", " ", "PASSED">>,
    <<"x.py", "::", "test_b", " ", "FAILED">>,
    <<"x.py", "::", "test_c", " ", "SKIPPED">>,
    <<"x.py", "::", "test_d", " ", "PASSED", " ", "FAILED">>,
    <<"FAILED", " ", "x.py", "::", "test_b", " ", "-", " ", "Error">>,
    <<"x.py", "::", "T", "::", " ", "test_e", " ", "PASSED", " ", "50%">>,
    <<"x.py", "::", "test_f", " ", "PASSED", "::", " ">>,
    <<"PASSED">>,
    <<"collected", " ", "3", " ", "items">> }

\* lines of go test: passed, failed, a RUN line, a result line without the
\* space after the prefix, an indented result line, a prefix with nothing
\* after it, a package line
GoLines ==
  { <<"--- PASS:", " ", "TestA", " ", "(0.1s)">>,
    <<"--- FAIL:", " ", "TestB", " ", "(0.2s)">>,
    <<"=== RUN", " ", "TestA">>,
    <<"--- PASS:", "TestC">>,
    <<" ", "--- PASS:", " ", "TestD">>,
    <<"--- FAIL:", " ">>,
    <<"ok", " ", "pkg">> }

\* the lines joined by "\n"
RECURSIVE JoinLines(_)
JoinLines(lines) ==
  IF lines = <<>> THEN <<>>
  ELSE IF Len(lines) = 1 THEN lines[1]
  ELSE lines[1] \o <<"\n">> \o JoinLines(Tail(lines))

\* the texts of up to MaxLines lines of a pool, and those of one line
\* with white space around it
TextsOf(pool) ==
  { JoinLines(lines) : lines \in SeqsUpTo(pool, MaxLines) }
  \cup { <<"\n", " ">> \o line \o <<" ", "\n", "\n">> : line \in pool }

\* the parser inputs: every summary text with the four harnesses and with
\* cargo, and the texts of each harness's lines with that harness
ParserInputs ==
  ({"pytest", "go", "npm", "custom"} \X ParserTexts)
  \cup ({"cargo"} \X (ParserTexts \cup TextsOf(CargoLines)))
  \cup ({"pytest"} \X TextsOf(PytestLines))
  \cup ({"go"} \X TextsOf(GoLines))

\* parse_test_output(harness, text) of runner.rs, parse_test_output(harness,
\* text) of local_runner.rs, and the run a job records when its pod has
\* Succeeded and its logs hold the text between the markers
ApplyParse ==
  /\ fn = NoFn
  /\ \E inp \in ParserInputs :
       LET harness == inp[1]
           text == inp[2]
           new == EvalRunResult_new(1, "p1", id(AgentPool[1]),
                                    AgentTool_to_string(AgentPool[1].tool),
                                    ModelVersion_to_string(AgentPool[1].model))
           logs == <<start_marker, "\n">> \o text \o <<"\n", end_marker, "\n">>
       IN fn' = [op |-> "parse_test_output", input |-> <<harness, text>>,
                 output |-> [parsed |-> parse_test_output(harness, text),
                             local |-> local_parse_test_output(harness, text),
                             run |-> on_succeeded([new EXCEPT !.status = "Running"],
                                                  harness, Some(logs))]]
  /\ UNCHANGED runvars

\* the runs of the lists given to calculate_scores: for one agent every
\* status with and without test results, for another agent a Completed, a
\* Failed and a Timeout run
ScoreRows ==
  LET Row(a, st, t) ==
        [EvalRunResult_new(0, "p1", id(AgentPool[a]),
                           AgentTool_to_string(AgentPool[a].tool),
                           ModelVersion_to_string(AgentPool[a].model))
           EXCEPT !.status = st, !.test_results = t]
  IN { Row(1, st, t) : st \in RunStatuses, t \in {None, Some(Suite(2, 1, 1, 0))} }
     \cup { Row(1, "Completed", Some(Suite(1, 1, 0, 0))),
            Row(2, "Completed", Some(Suite(1, 1, 0, 0))),
            Row(2, "Failed", None),
            Row(2, "Timeout", Some(Suite(2, 1, 1, 0))) }

\* the run lists given to calculate_scores: up to MaxRuns runs, the run
\* ids distinct
RunLists ==
  { [k \in 1..Len(rows) |-> [rows[k] EXCEPT !.run_id = k]] :
      rows \in SeqsUpTo(ScoreRows, MaxRuns) }

\* results.calculate_scores(), on results holding the run list
ApplyCalculateScores ==
  /\ fn = NoFn
  /\ \E runs \in RunLists :
       fn' = [op |-> "calculate_scores", input |-> runs,
              output |-> calculate_scores([EvaluationResults_new EXCEPT !.runs = runs])]
  /\ UNCHANGED runvars

\* the agents given to id: every tool, every named model and the custom
\* models, with several iterations
AgentConfigs ==
  [ tool : AgentTools,
    model : NamedModels \cup {Custom(t) : t \in {"gpt-5", "my-model"}},
    iterations : 1..MaxIterations ]

\* a.id() and b.id() of two agents
ApplyId ==
  /\ fn = NoFn
  /\ \E a \in AgentConfigs, b \in AgentConfigs :
       fn' = [op |-> "id", input |-> <<a, b>>, output |-> <<id(a), id(b)>>]
  /\ UNCHANGED runvars

\* the configurations given to combinations: every prefix of the prompts
\* and of the agents, the empty ones included
CombinationInputs ==
  { [prompts |-> Prefix(PromptPool, p), agents |-> Prefix(AgentPool, a),
     cleanup_on_complete |-> TRUE] :
      p \in 0..Len(PromptPool), a \in 0..Len(AgentPool) }

\* config.combinations()
ApplyCombinations ==
  /\ fn = NoFn
  /\ \E cfg \in CombinationInputs :
       fn' = [op |-> "combinations", input |-> cfg, output |-> combinations(cfg)]
  /\ UNCHANGED runvars

(* the timeout of a job (run_single_eval, build_agent_pod) *)

\* the largest number of hours whose seconds fit a u32:
\* 1193046 * 3600 = 4294965600 <= 2^32 - 1 < 1193047 * 3600
U32MaxHours == 1193046

\* (U32MaxHours + 1) * 3600 - 2^32: the seconds the product wraps to, one
\* hour above U32MaxHours
WrappedSeconds == 1904

\* a number of seconds, written hours * 3600 + secs
Seconds(hours, secs) == [hours |-> hours, secs |-> secs]

\* u32::min
min(x, y) == IF x <= y THEN x ELSE y

\* Option::unwrap_or
unwrap_or(o, default) == IF is_some(o) THEN o[1] ELSE default

\* prompt.timeout_hours.unwrap_or(default_timeout).min(timeout_hours)
job_timeout(prompt_timeout, default_timeout, timeout_hours) ==
  min(unwrap_or(prompt_timeout, default_timeout), timeout_hours)

\* hours * 3600 in u32, for hours up to 2 * U32MaxHours + 1: the product
\* when it fits; above that a build with overflow checks (debug) panics
\* and a build without them (release) wraps modulo 2^32
hours_times_3600(hours, build) ==
  IF hours <= U32MaxHours
    THEN [panic |-> FALSE, value |-> Seconds(hours, 0)]
  ELSE IF build = "debug"
    THEN [panic |-> TRUE, value |-> Seconds(0, 0)]
  ELSE [panic |-> FALSE,
        value |-> Seconds(hours - (U32MaxHours + 1), WrappedSeconds)]

\* the hours a prompt, the settings and the command line may give
HourValues == {0, 1, 6, U32MaxHours, U32MaxHours + 1}

\* the timeout of a job in run_single_eval: the hours of the job, the hours
\* and the deadline written into the pod by build_agent_pod, and the
\* duration given to wait_for_completion; a panic in any of the products
\* ends the task
ApplyTimeout ==
  /\ fn = NoFn
  /\ \E prompt_timeout \in {None} \cup {Some(h) : h \in HourValues},
        default_timeout \in HourValues, timeout_hours \in HourValues,
        build \in {"debug", "release"} :
       LET timeout == job_timeout(prompt_timeout, default_timeout, timeout_hours)
           active_deadline_seconds == hours_times_3600(timeout, build)
           max_duration == hours_times_3600(timeout, build)
       IN fn' = [op |-> "job_timeout",
                 input |-> [prompt_timeout |-> prompt_timeout,
                            default_timeout |-> default_timeout,
                            timeout_hours |-> timeout_hours,
                            build |-> build],
                 output |-> [timeout |-> timeout,
                             panicked |-> active_deadline_seconds.panic
                                          \/ max_duration.panic,
                             ANODE_TIMEOUT_HOURS |-> timeout,
                             active_deadline_seconds |-> active_deadline_seconds.value,
                             max_duration |-> max_duration.value]]
  /\ UNCHANGED runvars

\* parse_cargo_test_plain(text)
ApplyCargoPlain ==
  /\ fn = NoFn
  /\ \E text \in TextsOf(CargoLines) :
       fn' = [op |-> "parse_cargo_test_plain", input |-> text,
              output |-> parse_cargo_test_plain(text)]
  /\ UNCHANGED runvars

\* get_pod_status(pod) on pod objects without a phase and with each phase
\* (one of them no phase the program knows), with up to MaxContainers
\* containers: without a state, terminated with code 0, terminated with
\* another code with and without a reason, waiting for a reason that is no
\* failure, waiting for each kind of reason that is one, and terminated
\* with code 0 while waiting in a back-off
ApplyGetPodStatus ==
  /\ fn = NoFn
  /\ LET Terminated(code, reason) == Some([exit_code |-> code, reason |-> reason])
         containers ==
           { ContainerState(None, None),
             ContainerState(Terminated(0, <<"Completed">>), None),
             ContainerState(Terminated(1, <<"Error">>), None),
             ContainerState(Terminated(137, <<>>), None),
             ContainerState(None, Some(<<"ContainerCreating">>)),
             ContainerState(None, Some(<<"Err", "ImagePull">>)),
             ContainerState(None, Some(<<"ImagePull", "BackOff">>)),
             ContainerState(None, Some(<<"CrashLoop", "BackOff">>)),
             ContainerState(Terminated(0, <<"Completed">>), Some(<<"CrashLoop", "BackOff">>)) }
         phases == {None} \cup {Some(p) : p \in {"Pending", "Running", "Succeeded",
                                                  "Failed", "Evicted"}}
     IN \E phase \in phases, container_statuses \in SeqsUpTo(containers, MaxContainers) :
          LET pod == [phase |-> phase, container_statuses |-> container_statuses]
          IN fn' = [op |-> "get_pod_status", input |-> pod,
                    output |-> get_pod_status(pod)]
  /\ UNCHANGED runvars

\* calculate_scores called again: for every split of the run list, the
\* first runs are added to new results and calculate_scores is called once
\* and then a second time (twice), and then the other runs are added and
\* calculate_scores is called again (resumed); fresh is the one call on new
\* results holding all the runs
ApplyRecalculate ==
  /\ fn = NoFn
  /\ \E runs \in RunLists :
       LET \* add_run for each run of the list, in order
           RECURSIVE add_runs(_, _)
           add_runs(res, rs) ==
             IF rs = <<>> THEN res ELSE add_runs(add_run(res, Head(rs)), Tail(rs))
           first(k) == calculate_scores(add_runs(EvaluationResults_new, SubSeq(runs, 1, k)))
       IN fn' = [op |-> "calculate_scores again", input |-> runs,
                 output |->
                   [ fresh |-> calculate_scores(add_runs(EvaluationResults_new, runs)),
                     twice |-> [k \in 0..Len(runs) |-> calculate_scores(first(k))],
                     once |-> [k \in 0..Len(runs) |-> first(k)],
                     resumed |-> [k \in 0..Len(runs) |->
                                   calculate_scores(
                                     add_runs(first(k), SubSeq(runs, k + 1, Len(runs))))] ]]
  /\ UNCHANGED runvars

\* calculate_scores on the same runs in every arrival order: the run lists
\* of Completed and Failed runs, each with all its permutations
ApplyPermuted ==
  /\ fn = NoFn
  /\ \E runs \in {l \in RunLists : \A k \in 1..Len(l) : l[k].status \in {"Completed", "Failed"}} :
       LET scored(p) ==
             calculate_scores([EvaluationResults_new EXCEPT
                                 !.runs = [k \in 1..Len(runs) |-> runs[p[k]]]])
       IN fn' = [op |-> "calculate_scores permuted", input |-> runs,
                 output |-> [ arrival |-> scored([k \in 1..Len(runs) |-> k]),
                              permuted |-> {scored(p) : p \in Permutations(1..Len(runs))} ]]
  /\ UNCHANGED runvars

\*FN-ACTIONS

FnNext ==
  \/ ApplyExtract
  \/ ApplyComplete
  \/ ApplyFail
  \/ ApplyPassRate
  \/ ApplyParse
  \/ ApplyCalculateScores
  \/ ApplyId
  \/ ApplyCombinations
  \/ ApplyTimeout
  \/ ApplyCargoPlain
  \/ ApplyGetPodStatus
  \/ ApplyRecalculate
  \/ ApplyPermuted

FnSpec == FnInit /\ [][FnNext]_vars

(* ==================== properties of the pure functions =============== *)

Min(S) == CHOOSE x \in S : \A y \in S : x <= y

\* t is u without its leading and trailing whitespace
IsTrimOf(t, u) ==
  \E i \in 1..(Len(u) + 1), j \in 0..Len(u) :
    /\ t = SubSeq(u, i, j)
    /\ \A k \in 1..(i - 1) : IsWhitespace(u[k])
    /\ \A k \in (j + 1)..Len(u) : IsWhitespace(u[k])
    /\ t # <<>> => ~IsWhitespace(t[1]) /\ ~IsWhitespace(t[Len(t)])

\* out is the trimmed text strictly between the first start marker of text
\* and the first end marker after it, or None when there is no such pair
IsExtractOf(out, text) ==
  LET starts == {k \in 1..Len(text) : text[k] = start_marker}
  IN IF starts = {} THEN out = None
     ELSE LET a == Min(starts)
              ends == {k \in (a + 1)..Len(text) : text[k] = end_marker}
          IN IF ends = {} THEN out = None
             ELSE /\ is_some(out)
                  /\ IsTrimOf(out[1], SubSeq(text, a + 1, Min(ends) - 1))

\* C15: extract_test_output returns the trimmed text strictly between the
\* first TEST_OUTPUT_START and the first TEST_OUTPUT_END after it, and None
\* when either marker is absent or no end marker follows the first start
\* marker; applying it changes nothing else.
C15_ExtractBetweenMarkers ==
  /\ fn.op = "extract_test_output" => IsExtractOf(fn.output, fn.input)
  /\ results = EvaluationResults_new

\* C15 witness: an end marker before the start marker is passed over and
\* the text up to the next end marker is returned
C15_Witness ==
  /\ fn.op = "extract_test_output"
  /\ fn.input = <<end_marker, start_marker, "x", end_marker>>
  /\ fn.output = Some(<<"x">>)

\* the text between the markers is returned without the whitespace
\* around it
C15_WitnessTrimmed ==
  /\ fn.op = "extract_test_output"
  /\ fn.input = <<start_marker, " ", "x", end_marker>>
  /\ fn.output = Some(<<"x">>)

\* an end marker that only precedes the start marker gives None
C15_WitnessNotFound ==
  /\ fn.op = "extract_test_output"
  /\ fn.input = <<end_marker, "x", start_marker>>
  /\ fn.output = None

\* the fields of a run that neither complete_with_results nor
\* fail_with_error writes
SameIdentity(a, b) ==
  /\ a.run_id = b.run_id
  /\ a.prompt_id = b.prompt_id
  /\ a.agent_id = b.agent_id
  /\ a.agent_tool = b.agent_tool
  /\ a.model = b.model
  /\ a.agent_logs = b.agent_logs

\* C16: complete_with_results, on a run in any state and with any
\* TestSuiteResult, leaves status Completed, score the pass rate of that
\* result, test_results that result and completed_at set.
C16_CompleteAlwaysCompletes ==
  fn.op = "complete_with_results" =>
    LET r == fn.input[1]
        t == fn.input[2]
        out == fn.output
    IN /\ out.status = "Completed"
       /\ out.score = Some(IF t.total = 0 THEN Zero ELSE Ratio(t.passed * 100, t.total))
       /\ out.test_results = Some(t)
       /\ is_some(out.completed_at)
       /\ out.error = r.error
       /\ SameIdentity(out, r)

\* C16 witness: a run that had failed with score 0 is completed with a
\* result of 1 passed out of 2
C16_Witness ==
  /\ fn.op = "complete_with_results"
  /\ fn.input[1].status = "Failed"
  /\ fn.input[1].score = Some(Zero)
  /\ fn.input[2] = Suite(2, 1, 1, 0)
  /\ fn.output.status = "Completed"
  /\ fn.output.score = Some(Ratio(100, 2))

\* C17: fail_with_error, on a run in any state and with any message,
\* leaves status Failed, score 0, error that message and completed_at set.
C17_FailAlwaysFails ==
  fn.op = "fail_with_error" =>
    LET r == fn.input[1]
        e == fn.input[2]
        out == fn.output
    IN /\ out.status = "Failed"
       /\ out.score = Some(Zero)
       /\ out.error = Some(e)
       /\ is_some(out.completed_at)
       /\ out.test_results = r.test_results
       /\ SameIdentity(out, r)

\* C17 witness: a Completed run with a score of 50 is failed with the
\* empty message
C17_Witness ==
  /\ fn.op = "fail_with_error"
  /\ fn.input[1].status = "Completed"
  /\ fn.input[1].score = Some(Ratio(100, 2))
  /\ fn.input[2] = <<>>
  /\ fn.output.status = "Failed"
  /\ fn.output.score = Some(Zero)
  /\ fn.output.error = Some(<<>>)

\* C18: pass_rate is 0 when total is 0 and passed / total * 100 otherwise
\* (80 for 8 of 10); it never divides by zero.
C18_PassRate ==
  fn.op = "pass_rate" =>
    LET t == fn.input
        out == fn.output
    IN /\ out.den # 0
       /\ t.total = 0 => out.num = 0
       /\ t.total # 0 => out.num * t.total = t.passed * 100 * out.den
       /\ (t.passed = 8 /\ t.total = 10) => out.num = 80 * out.den

\* C18 witness: 8 passed of 10
C18_Witness ==
  /\ fn.op = "pass_rate"
  /\ fn.input.passed = 8
  /\ fn.input.total = 10
  /\ RatioEq(fn.output, Ratio(80, 1))

\* the pass rate of an empty suite that reports passed tests is 0
C18_WitnessEmpty ==
  /\ fn.op = "pass_rate"
  /\ fn.input.passed = 3
  /\ fn.input.total = 0
  /\ fn.output = Zero

(* -------------------- the range of a recorded score ------------------- *)

\* a score between 0 and 100 inclusive
InRange(score) == score.num >= 0 /\ score.num <= 100 * score.den

\* C19: every TestSuiteResult a parser returns has passed <= total, and the
\* score of the run recorded from it, when present, lies between 0 and 100
\* inclusive
C19_ScoreWithinRange ==
  fn.op = "parse_test_output" =>
    /\ fn.output.parsed.ok => fn.output.parsed.value.passed <= fn.output.parsed.value.total
    /\ is_some(fn.output.run.score) => InRange(fn.output.run.score[1])

\* the go and pytest parsers count passed among the lines they count in
\* total: their results keep passed <= total and the score within range
C19_LineCountingParsersWithinRange ==
  (fn.op = "parse_test_output" /\ fn.input[1] \in {"go", "pytest"}) =>
    /\ fn.output.parsed.value.passed <= fn.output.parsed.value.total
    /\ is_some(fn.output.run.score) /\ InRange(fn.output.run.score[1])

\* the first pattern of the generic parser (both words and two numbers on
\* the line) gives total = passed + failed, so passed <= total
C19_FirstPatternWithinRange ==
  (/\ fn.op = "parse_test_output"
   /\ fn.input[1] \in {"npm", "custom"}
   /\ Len(Lines(fn.input[2])) = 1
   /\ HasToken(LowerLine(fn.input[2]), "passed")
   /\ HasToken(LowerLine(fn.input[2]), "failed")
   /\ Len(NumsOf(fn.input[2])) >= 2) =>
    InRange(fn.output.run.score[1])

\* every run the dispatcher returns, over prompts with the go and pytest
\* harnesses, has its score within range
C19_RecordedScoresWithinRange ==
  is_some(returned) =>
    \A k \in 1..Len(returned[1].runs) :
      is_some(returned[1].runs[k].score) => InRange(returned[1].runs[k].score[1])

\* the generic parser on the line "Tests: 3 skipped, 1 passed, 2 total": the
\* line has no "failed", its numbers go to passed, failed and total in the
\* order written, and the run is recorded Completed with score 150
C19_ScoreAboveRange ==
  /\ fn.op = "parse_test_output"
  /\ fn.input = <<"custom", <<"Tests:", " ", "3", " ", "skipped", ",", " ", "1",
                              " ", "passed", ",", " ", "2", " ", "total">> >>
  /\ fn.output.parsed.value.passed = 3
  /\ fn.output.parsed.value.total = 2
  /\ fn.output.run.status = "Completed"
  /\ fn.output.run.score = Some(Ratio(300, 2))

(* ------------------------ the scores per agent ------------------------ *)

\* the positions of runs that hold a run of agent aid
RunsOfAgent(runs, aid) == {j \in 1..Len(runs) : runs[j].agent_id = aid}

\* total (or passed) of run j where it counts: a Completed run of agent aid
\* with test results; 0 elsewhere
CountedTests(runs, aid, field) ==
  [j \in 1..Len(runs) |->
     IF /\ runs[j].agent_id = aid
        /\ runs[j].status = "Completed"
        /\ is_some(runs[j].test_results)
       THEN IF field = "total" THEN runs[j].test_results[1].total
                               ELSE runs[j].test_results[1].passed
       ELSE 0]

\* scores is the per-agent aggregation of runs
IsAggregateOf(scores, runs) ==
  LET ids == {runs[j].agent_id : j \in 1..Len(runs)}
  IN /\ Len(scores) = Cardinality(ids)
     /\ {scores[k].agent_id : k \in 1..Len(scores)} = ids
     /\ \A k \in 1..Len(scores) :
          LET s == scores[k]
              mine == RunsOfAgent(runs, s.agent_id)
          IN /\ s.total_runs = Cardinality(mine)
             /\ s.completed_runs =
                  Cardinality({j \in mine : runs[j].status = "Completed"})
             /\ s.failed_runs =
                  Cardinality({j \in mine : runs[j].status \in {"Failed", "Timeout"}})
             /\ Len(s.runs) = Cardinality(mine)
             /\ {s.runs[m] : m \in 1..Len(s.runs)} = {runs[j].run_id : j \in mine}
             /\ s.total_tests = Sum(CountedTests(runs, s.agent_id, "total"))
             /\ s.passed_tests = Sum(CountedTests(runs, s.agent_id, "passed"))
             /\ s.average_score =
                  IF s.total_tests = 0 THEN Zero
                  ELSE Ratio(s.passed_tests * 100, s.total_tests)

\* C20: after calculate_scores there is exactly one AgentScore per distinct
\* agent_id of the run list; it counts the agent's runs, its Completed runs
\* and its Failed or Timeout runs, lists exactly their run ids, sums total
\* and passed over its Completed runs only, and its average_score is
\* passed_tests / total_tests * 100, or 0 when total_tests is 0
C20_OneScorePerAgent ==
  fn.op = "calculate_scores" => IsAggregateOf(fn.output.agent_scores, fn.input)

\* two agents in the list; one of them has a Completed run and a Failed run
\* that carries test results, which are not counted
C20_Witness ==
  /\ fn.op = "calculate_scores"
  /\ Len(fn.output.agent_scores) = 2
  /\ \E k \in 1..2 :
       LET s == fn.output.agent_scores[k]
       IN /\ s.total_runs = 2
          /\ s.completed_runs = 1
          /\ s.failed_runs = 1
          /\ s.total_tests = 2
          /\ s.passed_tests = 1
          /\ \E j \in RunsOfAgent(fn.input, s.agent_id) :
               /\ fn.input[j].status = "Failed"
               /\ is_some(fn.input[j].test_results)

\* an agent none of whose runs is Completed: no tests counted, average 0
C20_WitnessNoTests ==
  /\ fn.op = "calculate_scores"
  /\ \E k \in 1..Len(fn.output.agent_scores) :
       LET s == fn.output.agent_scores[k]
       IN /\ s.total_runs = 2
          /\ s.completed_runs = 0
          /\ s.failed_runs = 1
          /\ s.total_tests = 0
          /\ s.average_score = Zero

\* the scores of the results the dispatcher returns are the aggregation of
\* the runs it returns
C20_ReturnedScoresAggregate ==
  is_some(returned) => IsAggregateOf(returned[1].agent_scores, returned[1].runs)

(* ------------------------ ranking and summary ------------------------- *)

\* C21: after calculate_scores, agent_scores is ordered by non-increasing
\* average_score and the entry at position i (from 0) has rank i + 1: the
\* ranks are 1..n, each used once, n the number of distinct agent ids
C21_SortedAndRanked ==
  fn.op = "calculate_scores" =>
    LET scores == fn.output.agent_scores
        ids == {fn.input[j].agent_id : j \in 1..Len(fn.input)}
    IN /\ \A k \in 1..(Len(scores) - 1) :
            ~RatioLess(scores[k].average_score, scores[k + 1].average_score)
       /\ \A k \in 1..Len(scores) : scores[k].rank = k
       /\ {scores[k].rank : k \in 1..Len(scores)} = 1..Cardinality(ids)

\* two agents of which the later in the order of the map has the strictly
\* higher average: the sort has moved it to the front
C21_Witness ==
  /\ fn.op = "calculate_scores"
  /\ Len(fn.output.agent_scores) = 2
  /\ RatioLess(fn.output.agent_scores[2].average_score,
               fn.output.agent_scores[1].average_score)
  /\ fn.output.agent_scores[1].agent_id = SortedAgentIds[Len(SortedAgentIds)]
  /\ fn.output.agent_scores[1].rank = 1
  /\ fn.output.agent_scores[2].rank = 2

\* C22: after calculate_scores, best_agent is the agent_id of the first
\* entry of the sorted agent list and worst_agent that of the last, both
\* absent when there are no runs; total_tests and passed_tests of the summary
\* are the sums of those fields over the agent scores, and overall_pass_rate
\* is passed_tests / total_tests * 100, or 0 when no tests were counted
C22_SummaryFromSortedScores ==
  fn.op = "calculate_scores" =>
    LET scores == fn.output.agent_scores
        summary == fn.output.summary
        n == Len(scores)
    IN /\ summary.best_agent =
            IF fn.input = <<>> THEN None ELSE Some(scores[1].agent_id)
       /\ summary.worst_agent =
            IF fn.input = <<>> THEN None ELSE Some(scores[n].agent_id)
       /\ summary.total_tests = Sum([k \in 1..n |-> scores[k].total_tests])
       /\ summary.passed_tests = Sum([k \in 1..n |-> scores[k].passed_tests])
       /\ summary.overall_pass_rate =
            IF summary.total_tests = 0 THEN Zero
            ELSE Ratio(summary.passed_tests * 100, summary.total_tests)

\* two agents with different averages, both with counted tests: best and
\* worst differ, and the summary adds the tests of both
C22_Witness ==
  /\ fn.op = "calculate_scores"
  /\ Len(fn.output.agent_scores) = 2
  /\ fn.output.summary.best_agent = Some(SortedAgentIds[Len(SortedAgentIds)])
  /\ fn.output.summary.worst_agent = Some(SortedAgentIds[1])
  /\ fn.output.agent_scores[1].total_tests = 1
  /\ fn.output.agent_scores[2].total_tests = 2
  /\ fn.output.summary.total_tests = 3
  /\ fn.output.summary.passed_tests = 2
  /\ fn.output.summary.overall_pass_rate = Ratio(200, 3)

\* no runs: no best and no worst agent, and a pass rate of 0
C22_WitnessNoRuns ==
  /\ fn.op = "calculate_scores"
  /\ fn.input = <<>>
  /\ fn.output.summary.best_agent = None
  /\ fn.output.summary.worst_agent = None
  /\ fn.output.summary.overall_pass_rate = Zero

\* runs whose tests do not count (none Completed): the summary has no
\* tests and a pass rate of 0, although a Timeout run carries test results
C22_WitnessNoTests ==
  /\ fn.op = "calculate_scores"
  /\ \E j \in 1..Len(fn.input) : is_some(fn.input[j].test_results)
  /\ fn.output.summary.total_tests = 0
  /\ fn.output.summary.overall_pass_rate = Zero
  /\ is_some(fn.output.summary.best_agent)

(* --------------------------- agent identity --------------------------- *)

\* C23: the id of an agent is "{tool}-{model}"; two agents that differ in
\* iterations only share one id, and two agents with distinct (tool, model)
\* pairs never share an id
C23_IdPerToolAndModel ==
  fn.op = "id" =>
    LET a == fn.input[1]
        b == fn.input[2]
    IN /\ fn.output[1] = <<AgentTool_to_string(a.tool), "-",
                           ModelVersion_to_string(a.model)>>
       /\ (a.tool = b.tool /\ a.model = b.model) => fn.output[1] = fn.output[2]
       /\ <<a.tool, a.model>> # <<b.tool, b.model>> => fn.output[1] # fn.output[2]

\* two agents that differ in iterations only have the same id
C23_IdIgnoresIterations ==
  (/\ fn.op = "id"
   /\ fn.input[1].tool = fn.input[2].tool
   /\ fn.input[1].model = fn.input[2].model) =>
    fn.output[1] = fn.output[2]

\* two agents with named models and distinct (tool, model) pairs have
\* distinct ids
C23_NamedModelsHaveDistinctIds ==
  (/\ fn.op = "id"
   /\ fn.input[1].model \in NamedModels
   /\ fn.input[2].model \in NamedModels
   /\ <<fn.input[1].tool, fn.input[1].model>> # <<fn.input[2].tool, fn.input[2].model>>) =>
    fn.output[1] # fn.output[2]

\* the model Gpt5 and the custom model with the text "gpt-5", on one tool:
\* two distinct (tool, model) pairs with one id
C23_SharedIdOfDistinctModels ==
  /\ fn.op = "id"
  /\ fn.input[1].tool = fn.input[2].tool
  /\ fn.input[1].model = [variant |-> "Gpt5", text |-> ""]
  /\ fn.input[2].model = Custom("gpt-5")
  /\ fn.output[1] = fn.output[2]

\* the runs of two configured agents that differ in iterations only are
\* folded into one AgentScore
C23_SharedIdFoldsRuns ==
  (is_some(returned) /\ Len(config.agents) = 3) =>
    \E k \in 1..Len(returned[1].agent_scores) :
      LET s == returned[1].agent_scores[k]
      IN /\ s.agent_id = id(config.agents[1])
         /\ s.agent_id = id(config.agents[3])
         /\ s.total_runs = 2 * Len(config.prompts)

\* a run with three agents, two of them differing in iterations only, has
\* returned: two agent scores for three agents
C23_FoldedRunsReached ==
  /\ is_some(returned)
  /\ Len(config.agents) = 3
  /\ config.agents[1].iterations # config.agents[3].iterations
  /\ Len(returned[1].agent_scores) = 2

(* ------------------------- the combinations --------------------------- *)

\* C24: combinations() is the full cross product of prompts and agents,
\* each pair once, prompts in the outer loop and agents in the inner loop,
\* both in configuration order; its length is |prompts| * |agents|
C24_CrossProductInOrder ==
  fn.op = "combinations" =>
    LET np == Len(fn.input.prompts)
        na == Len(fn.input.agents)
    IN /\ Len(fn.output) = np * na
       /\ \A p \in 1..np, a \in 1..na :
            /\ fn.output[(p - 1) * na + a].prompt = fn.input.prompts[p]
            /\ fn.output[(p - 1) * na + a].agent = fn.input.agents[a]
       /\ \A p \in 1..np, a \in 1..na :
            Cardinality({k \in 1..Len(fn.output) :
                           fn.output[k] = [prompt |-> fn.input.prompts[p],
                                           agent |-> fn.input.agents[a]]}) = 1

\* two prompts and three agents: six pairs, the second pair is the first
\* prompt with the second agent, the fourth the second prompt with the
\* first agent
C24_Witness ==
  /\ fn.op = "combinations"
  /\ Len(fn.input.prompts) = 2
  /\ Len(fn.input.agents) = 3
  /\ Len(fn.output) = 6
  /\ fn.output[2] = [prompt |-> PromptPool[1], agent |-> AgentPool[2]]
  /\ fn.output[4] = [prompt |-> PromptPool[2], agent |-> AgentPool[1]]

\* no prompts and some agents: no combination
C24_WitnessEmpty ==
  /\ fn.op = "combinations"
  /\ fn.input.prompts = <<>>
  /\ fn.input.agents # <<>>
  /\ fn.output = <<>>

(* ------------------------- the timeout of a job ----------------------- *)

\* the least of a prompt's hours, if any, else the default, and the cap
TimeoutWanted ==
  LET own == IF fn.input.prompt_timeout = None THEN fn.input.default_timeout
             ELSE fn.input.prompt_timeout[1]
  IN IF own <= fn.input.timeout_hours THEN own ELSE fn.input.timeout_hours

\* C25: the timeout of a job, in hours, is the prompt's timeout_hours if
\* present, else the default of the settings, capped by the run-level
\* timeout_hours; that same value is written into the job spec and used
\* for the poll deadline
C25_OneTimeoutForSpecAndDeadline ==
  fn.op = "job_timeout" =>
    /\ fn.output.timeout = TimeoutWanted
    /\ ~fn.output.panicked
    /\ fn.output.ANODE_TIMEOUT_HOURS = TimeoutWanted
    /\ fn.output.active_deadline_seconds = Seconds(TimeoutWanted, 0)
    /\ fn.output.max_duration = Seconds(TimeoutWanted, 0)

\* the hours of the job are the capped value for every input
C25_TimeoutIsCappedMinimum ==
  fn.op = "job_timeout" =>
    /\ fn.output.timeout = TimeoutWanted
    /\ fn.output.ANODE_TIMEOUT_HOURS = TimeoutWanted

\* up to U32MaxHours hours the job spec and the poll deadline carry the
\* hours of the job
C25_SameValueWhileSecondsFit ==
  (fn.op = "job_timeout" /\ fn.output.timeout <= U32MaxHours) =>
    /\ ~fn.output.panicked
    /\ fn.output.active_deadline_seconds = Seconds(fn.output.timeout, 0)
    /\ fn.output.max_duration = Seconds(fn.output.timeout, 0)

\* a prompt without a timeout, default and cap of U32MaxHours + 1 hours, a
\* release build: the poll deadline is 1904 seconds
C25_DeadlineWrapped ==
  /\ fn.op = "job_timeout"
  /\ fn.input.prompt_timeout = None
  /\ fn.input.build = "release"
  /\ fn.output.timeout = U32MaxHours + 1
  /\ fn.output.max_duration = Seconds(0, WrappedSeconds)

\* the cap decides: a prompt asks for more hours than the run allows
C25_CapReached ==
  /\ fn.op = "job_timeout"
  /\ is_some(fn.input.prompt_timeout)
  /\ fn.input.prompt_timeout[1] > fn.input.timeout_hours
  /\ fn.output.timeout = fn.input.timeout_hours
  /\ fn.output.max_duration = Seconds(fn.input.timeout_hours, 0)

(* ----------------------- the harness parsers -------------------------- *)

\* C26: every harness parser (cargo JSON, cargo plain text, pytest, go,
\* generic) returns raw_output equal to its input text, unmodified, for
\* every input, also one in which no test is recognised
C26_RawOutputIsTheInput ==
  fn.op = "parse_test_output" =>
    /\ fn.output.parsed.ok
    /\ fn.output.parsed.value.raw_output = fn.input[2]

\* a text with white space around its only line, in which the cargo
\* parsers recognise a test: raw_output keeps the white space
C26_Witness ==
  /\ fn.op = "parse_test_output"
  /\ fn.input[1] = "cargo"
  /\ fn.input[2] # Trim(fn.input[2])
  /\ fn.output.parsed.value.total = 1
  /\ fn.output.parsed.value.raw_output = fn.input[2]

\* a text of several lines in which the cargo parser finds JSON events
C26_WitnessJson ==
  /\ fn.op = "parse_test_output"
  /\ fn.input[1] = "cargo"
  /\ Len(Lines(fn.input[2])) > 1
  /\ \E k \in 1..Len(fn.output.parsed.value.tests) :
       fn.output.parsed.value.tests[k].name = <<"t1">>
  /\ fn.output.parsed.value.raw_output = fn.input[2]

\* a text in which the pytest, go or generic parser recognises no test
C26_WitnessNothingRecognised ==
  /\ fn.op = "parse_test_output"
  /\ fn.input[1] \in {"pytest", "go", "custom"}
  /\ fn.input[2] # <<>>
  /\ fn.output.parsed.value.total = 0
  /\ fn.output.parsed.value.raw_output = fn.input[2]

\* the lines of text, in order, at which Test holds
LinesWith(text, Test(_)) == SelectSeq(Lines(text), Test)

\* a line that starts with "test " and holds the mark
CargoLineWith(line, mark) ==
  /\ Len(line) >= 2 /\ line[1] = "test" /\ line[2] = " "
  /\ Contains(line, mark)

\* the text of a cargo line between "test " and its first " ... "
CargoNameOf(line) ==
  LET rest == SubSeq(line, 3, Len(line))
      at == {k \in 1..(Len(rest) - 2) :
               rest[k] = " " /\ rest[k + 1] = "..." /\ rest[k + 2] = " "}
  IN SubSeq(rest, 1, Min(at) - 1)

\* C27 as stated: the cargo plain-text parser counts each line that starts
\* with "test " and contains " ... ok" as passed and each such line that
\* contains " ... FAILED" as failed, ignores every other line, and returns
\* total = passed + failed = number of per-case entries, each named by the
\* text between "test " and the first " ... "
C27_EveryMarkCounted ==
  fn.op = "parse_cargo_test_plain" =>
    LET t == fn.output.value
        oks == LinesWith(fn.input, LAMBDA l : CargoLineWith(l, ok_mark))
        fails == LinesWith(fn.input, LAMBDA l : CargoLineWith(l, failed_mark))
    IN /\ t.passed = Len(oks)
       /\ t.failed = Len(fails)
       /\ t.total = t.passed + t.failed
       /\ t.total = Len(t.tests)

\* C27, amended: a line that starts with "test " counts as passed when it
\* contains " ... ok", and as failed when it contains " ... FAILED" and not
\* " ... ok"; every other line is ignored; total = passed + failed is the
\* number of per-case entries, one per counted line in order, each named
\* by the text between "test " and the first " ... " and passed exactly
\* when its line counts as passed
C27_OkBeforeFailed ==
  fn.op = "parse_cargo_test_plain" =>
    LET t == fn.output.value
        counted == LinesWith(fn.input,
                     LAMBDA l : CargoLineWith(l, ok_mark) \/ CargoLineWith(l, failed_mark))
        oks == LinesWith(fn.input, LAMBDA l : CargoLineWith(l, ok_mark))
        fails == LinesWith(fn.input,
                   LAMBDA l : CargoLineWith(l, failed_mark) /\ ~CargoLineWith(l, ok_mark))
    IN /\ fn.output.ok
       /\ t.passed = Len(oks)
       /\ t.failed = Len(fails)
       /\ t.total = t.passed + t.failed
       /\ t.skipped = 0
       /\ Len(t.tests) = t.total
       /\ Len(counted) = t.total
       /\ \A k \in 1..Len(t.tests) :
            /\ t.tests[k].name = CargoNameOf(counted[k])
            /\ t.tests[k].passed = CargoLineWith(counted[k], ok_mark)

\* two " ... ok" lines and one " ... FAILED" line: total 3, passed 2,
\* failed 1
C27_Witness ==
  /\ fn.op = "parse_cargo_test_plain"
  /\ Len(Lines(fn.input)) = 3
  /\ fn.output.value.total = 3
  /\ fn.output.value.passed = 2
  /\ fn.output.value.failed = 1
  /\ fn.output.value.tests[1].name = <<"e", " ", "f">>

\* a line with both marks, counted once, as passed; the summary line and a
\* JSON line beside it are ignored
C27_WitnessBothMarks ==
  /\ fn.op = "parse_cargo_test_plain"
  /\ \E k \in 1..Len(Lines(fn.input)) :
       /\ CargoLineWith(Lines(fn.input)[k], ok_mark)
       /\ CargoLineWith(Lines(fn.input)[k], failed_mark)
  /\ \E k \in 1..Len(Lines(fn.input)) :
       Len(Lines(fn.input)[k]) >= 3 /\ Lines(fn.input)[k][3] = "result:"
  /\ Len(Lines(fn.input)) = 3
  /\ fn.output.value.total = 1
  /\ fn.output.value.passed = 1
  /\ fn.output.value.failed = 0

\* the verdict of a pytest line: the first of PASSED, FAILED, SKIPPED it
\* contains, in that order of precedence
PytestVerdict(line) ==
  IF \E k \in 1..Len(line) : line[k] = "PASSED" THEN "passed"
  ELSE IF \E k \in 1..Len(line) : line[k] = "FAILED" THEN "failed"
  ELSE IF \E k \in 1..Len(line) : line[k] = "SKIPPED" THEN "skipped"
  ELSE "none"

\* the first token that is not white space after the last "::" of the line
\* (of the whole line without "::"); empty when there is none
PytestNameOf(line) ==
  LET seps == {k \in 1..Len(line) : line[k] = "::"}
      from == IF seps = {} THEN 1
              ELSE (CHOOSE k \in seps : \A j \in seps : j <= k) + 1
      words == {k \in from..Len(line) : line[k] \notin {" ", "\n"}}
  IN IF words = {} THEN <<>> ELSE <<line[Min(words)]>>

\* C28: the pytest parser classifies each line at most once, as passed if
\* it contains "PASSED", else failed if it contains "FAILED", else skipped
\* if it contains "SKIPPED"; total = passed + failed + skipped; each passed
\* or failed line yields one per-case entry, named by the first whitespace
\* token of the last "::"-delimited segment
C28_PytestOneVerdictPerLine ==
  (fn.op = "parse_test_output" /\ fn.input[1] = "pytest") =>
    LET t == fn.output.parsed.value
        With(v) == LinesWith(fn.input[2], LAMBDA l : PytestVerdict(l) = v)
        cases == LinesWith(fn.input[2],
                           LAMBDA l : PytestVerdict(l) \in {"passed", "failed"})
    IN /\ t.passed = Len(With("passed"))
       /\ t.failed = Len(With("failed"))
       /\ t.skipped = Len(With("skipped"))
       /\ t.total = t.passed + t.failed + t.skipped
       /\ Len(t.tests) = Len(cases)
       /\ \A k \in 1..Len(cases) :
            /\ t.tests[k].name = PytestNameOf(cases[k])
            /\ t.tests[k].passed = (PytestVerdict(cases[k]) = "passed")

\* two PASSED lines and one FAILED line: total 3, passed 2, failed 1, three
\* entries
C28_Witness ==
  /\ fn.op = "parse_test_output"
  /\ fn.input[1] = "pytest"
  /\ Len(Lines(fn.input[2])) = 3
  /\ fn.output.parsed.value.total = 3
  /\ fn.output.parsed.value.passed = 2
  /\ fn.output.parsed.value.failed = 1
  /\ Len(fn.output.parsed.value.tests) = 3
  /\ fn.output.parsed.value.tests[1].name = <<"test_e">>

\* a line with PASSED and FAILED counts once, as passed, and a SKIPPED
\* line counts without an entry
C28_WitnessPrecedence ==
  /\ fn.op = "parse_test_output"
  /\ fn.input[1] = "pytest"
  /\ Len(Lines(fn.input[2])) = 2
  /\ HasToken(Lines(fn.input[2])[1], "PASSED")
  /\ HasToken(Lines(fn.input[2])[1], "FAILED")
  /\ HasToken(Lines(fn.input[2])[2], "SKIPPED")
  /\ fn.output.parsed.value.total = 2
  /\ fn.output.parsed.value.passed = 1
  /\ fn.output.parsed.value.failed = 0
  /\ fn.output.parsed.value.skipped = 1
  /\ Len(fn.output.parsed.value.tests) = 1

\* a line that starts with the go result prefix
GoLineWith(line, prefix) == line # <<>> /\ line[1] = prefix

\* the positions after the prefix of a go result line that hold a word
GoWordsAfterPrefix(line) == {k \in 2..Len(line) : line[k] \notin {" ", "\n"}}

\* C29 as stated: the go-test parser counts exactly the lines that start
\* with "--- PASS:" (passed) or "--- FAIL:" (failed) and ignores the others;
\* total = passed + failed = number of per-case entries, each named by the
\* first whitespace token after the prefix
C29_NamedByFirstTokenAfterPrefix ==
  (fn.op = "parse_test_output" /\ fn.input[1] = "go") =>
    LET t == fn.output.parsed.value
        counted == LinesWith(fn.input[2],
                     LAMBDA l : GoLineWith(l, "--- PASS:") \/ GoLineWith(l, "--- FAIL:"))
    IN /\ t.passed = Len(LinesWith(fn.input[2], LAMBDA l : GoLineWith(l, "--- PASS:")))
       /\ t.failed = Len(LinesWith(fn.input[2], LAMBDA l : GoLineWith(l, "--- FAIL:")))
       /\ t.total = t.passed + t.failed
       /\ Len(t.tests) = t.total
       /\ \A k \in 1..Len(t.tests) :
            GoWordsAfterPrefix(counted[k]) # {} =>
              t.tests[k].name = <<counted[k][Min(GoWordsAfterPrefix(counted[k]))]>>

\* C29, amended: the go-test parser counts exactly the lines that start
\* with "--- PASS:" (passed) or "--- FAIL:" (failed) and ignores the others;
\* total = passed + failed = number of per-case entries, one per counted
\* line in order; an entry is named by the first whitespace token after
\* the prefix when the prefix is followed by a space and a token follows,
\* and "unknown" otherwise
C29_NamedAfterPrefixAndSpace ==
  (fn.op = "parse_test_output" /\ fn.input[1] = "go") =>
    LET t == fn.output.parsed.value
        counted == LinesWith(fn.input[2],
                     LAMBDA l : GoLineWith(l, "--- PASS:") \/ GoLineWith(l, "--- FAIL:"))
    IN /\ t.passed = Len(LinesWith(fn.input[2], LAMBDA l : GoLineWith(l, "--- PASS:")))
       /\ t.failed = Len(LinesWith(fn.input[2], LAMBDA l : GoLineWith(l, "--- FAIL:")))
       /\ t.total = t.passed + t.failed
       /\ t.skipped = 0
       /\ Len(t.tests) = t.total
       /\ Len(counted) = t.total
       /\ \A k \in 1..Len(t.tests) :
            /\ t.tests[k].passed = GoLineWith(counted[k], "--- PASS:")
            /\ t.tests[k].name =
                 IF /\ Len(counted[k]) >= 2
                    /\ counted[k][2] = " "
                    /\ GoWordsAfterPrefix(counted[k]) # {}
                   THEN <<counted[k][Min(GoWordsAfterPrefix(counted[k]))]>>
                   ELSE <<"unknown">>

\* two "--- PASS:" lines and one "--- FAIL:" line: total 3, passed 2,
\* failed 1, the entries named by the word after the prefix
C29_Witness ==
  /\ fn.op = "parse_test_output"
  /\ fn.input[1] = "go"
  /\ Len(Lines(fn.input[2])) = 3
  /\ fn.output.parsed.value.total = 3
  /\ fn.output.parsed.value.passed = 2
  /\ fn.output.parsed.value.failed = 1
  /\ fn.output.parsed.value.tests[1].name = <<"TestA">>
  /\ fn.output.parsed.value.tests[2].name = <<"TestB">>

\* a "=== RUN" line and an indented result line are ignored, and a result
\* line without the space after its prefix is counted and named "unknown"
C29_WitnessUnknown ==
  /\ fn.op = "parse_test_output"
  /\ fn.input[1] = "go"
  /\ Len(Lines(fn.input[2])) = 3
  /\ Lines(fn.input[2])[1] = <<"=== RUN", " ", "TestA">>
  /\ Lines(fn.input[2])[2] = <<" ", "--- PASS:", " ", "TestD">>
  /\ Lines(fn.input[2])[3] = <<"--- PASS:", "TestC">>
  /\ fn.output.parsed.value.total = 1
  /\ fn.output.parsed.value.tests[1].name = <<"unknown">>

(* ------------------- how long a job holds its permit ------------------ *)

\* the result of job i has been appended to the collector
Appended(i) == RowsOf(results.runs, i) # <<>>

\* the combinations that have been dispatched and whose result has not
\* been appended
InFlight == {i \in 1..handles : ~Appended(i)}

\* C30: a job's permit is released only after its spawn, polling, log
\* retrieval, parsing and (when it runs) cleanup have finished and its
\* result has been appended to the collector, and no later combination
\* starts on that permit before then: every dispatched combination whose
\* result is not appended holds one of the parallelism permits, and an
\* appended result is that of a finished lifecycle
C30_PermitHeldUntilAppended ==
  mode = "pods" =>
    /\ permits + Cardinality(InFlight) = parallelism
    /\ permits >= 0
    /\ \A i \in Jobs :
         Appended(i) =>
           /\ job[i].pc = "finished"
           /\ calls[i].spawn = 1
           /\ RowsOf(results.runs, i)[1].status \in {"Completed", "Failed"}
           /\ ~SpawnFailed(i) => calls[i].logs >= 1
           /\ (~SpawnFailed(i) /\ ~StatusFailed(i) /\ config.cleanup_on_complete) =>
                calls[i].delete = 1
    /\ \A i \in Jobs : job[i].pc \in PermitPcs => i \in InFlight

\* one permit, held by a job that has been through its cleanup and waits to
\* append its result, while a later combination waits to be dispatched
C30_Witness ==
  /\ mode = "pods"
  /\ parallelism = 1
  /\ permits = 0
  /\ handles < N
  /\ \E i \in Jobs :
       /\ job[i].pc = "return"
       /\ calls[i].delete = 1
       /\ ~Appended(i)

\* the permit of an appended job is in use by the next combination
C30_WitnessNextStarted ==
  /\ mode = "pods"
  /\ parallelism = 1
  /\ permits = 0
  /\ Appended(1)
  /\ job[2].pc \in PermitPcs

(* ---------------------- what the wait of a job returns ---------------- *)

\* C31: wait_for_completion goes on polling while the status it observes is
\* Pending, Running or Unknown: a job that is still in the wait has been
\* given no status, and the status a wait returned is Succeeded or
\* Failed(reason), Failed("Timeout") when max_duration elapsed; so no
\* result carries the error "Unexpected pod status".
C31_WaitReturnsOnlyTerminal ==
  \A i \in Jobs :
    /\ job[i].pc = "wait" => job[i].pod_status = None /\ ~calls[i].deadline
    /\ is_some(job[i].pod_status) =>
         /\ job[i].pod_status[1].kind \in {"Succeeded", "Failed"}
         /\ job[i].pod_status[1].kind = "Succeeded" => job[i].pod_status[1].reason = <<>>
         /\ calls[i].deadline => job[i].pod_status[1] = Failed(<<"Timeout">>)
    /\ (HasResult(i) /\ is_some(ResultOf(i).error)) =>
         ~StartsWithSeq(ResultOf(i).error[1], <<"Unexpected pod status: ">>)

\* C31 witness: a job is still in the wait after a status query that
\* returned no terminal status, while the wait of another job has returned
\* the failure of a container
C31_Witness ==
  \E i, j \in Jobs :
    /\ job[i].pc = "wait"
    /\ calls[i].status
    /\ job[j].pc = "logs"
    /\ ~calls[j].deadline
    /\ job[j].pod_status[1].kind = "Failed"
    /\ StartsWithSeq(job[j].pod_status[1].reason, <<"Container waiting: ">>)

\* the wait of a job returned Succeeded, and the job has gone through the
\* match on it
C31_WitnessSucceeded ==
  \E i \in Jobs :
    /\ PastMatch(i)
    /\ HasResult(i)
    /\ ResultOf(i).status = "Completed"
    /\ calls[i].status

(* ------------------------ the status of a pod ------------------------- *)

\* the container reports a terminated state with a non-zero exit code, or
\* a waiting state whose reason contains "Err", "BackOff" or "CrashLoop"
ReportsFailure(cs) ==
  \/ cs.terminated # None /\ cs.terminated[1].exit_code # 0
  \/ /\ cs.waiting # None
     /\ \E k \in 1..Len(cs.waiting[1]) : cs.waiting[1][k] \in {"Err", "BackOff", "CrashLoop"}

\* the status the phase of a pod stands for
PhaseStatus(phase) ==
  IF phase = None THEN Unknown
  ELSE IF phase[1] = "Pending" THEN Pending
  ELSE IF phase[1] = "Running" THEN Running
  ELSE IF phase[1] = "Succeeded" THEN Succeeded
  ELSE IF phase[1] = "Failed" THEN Failed(<<"Pod failed">>)
  ELSE Unknown

C32_WitnessNoPhase ==
  /\ fn.op = "get_pod_status"
  /\ fn.input.phase = None
  /\ \E k \in 1..Len(fn.input.container_statuses) :
       /\ fn.input.container_statuses[k].terminated # None
       /\ fn.input.container_statuses[k].terminated[1].exit_code = 1
  /\ fn.output = Unknown

\* a phase the program does not know is Unknown
C32_WitnessOtherPhase ==
  /\ fn.op = "get_pod_status"
  /\ fn.input.phase = Some("Evicted")
  /\ fn.output = Unknown

(* ------------------- the shared collector of results ------------------ *)

\* C33: job tasks change the shared results only by add_run: every step
\* either leaves the run list as it is (finalize included) or is the step
\* in which one job finishes and appends its own result at the end of the
\* list, so the list holds the results in the order in which the jobs
\* finished, one for each finished job and none for any other, and no
\* element already in the list is modified or removed.
C33_AppendOnlyInArrivalOrder ==
  [][ /\ \/ results'.runs = results.runs
         \/ \E i \in Jobs :
              /\ job[i].pc \in {"return", "l_return"}
              /\ job'[i].pc = "finished"
              /\ \A j \in Jobs \ {i} : job'[j] = job[j]
              /\ results'.runs = Append(results.runs, job[i].result[1])
      /\ \A i \in Jobs :
           /\ (job[i].pc # "finished" /\ job'[i].pc = "finished") =>
                results'.runs = Append(results.runs, job[i].result[1])
           /\ Len(RowsOf(results'.runs, i)) = (IF job'[i].pc = "finished" THEN 1 ELSE 0)
      /\ IsPrefix(results.runs, results'.runs)
    ]_vars

\* C33 witness: with two permits the second combination finished first:
\* run has returned a list whose first element is the result of the second
\* combination and whose second is that of the first
C33_Witness ==
  /\ RunReturned
  /\ parallelism = 2
  /\ Len(returned[1].runs) = 2
  /\ returned[1].runs[1].run_id = 2
  /\ returned[1].runs[2].run_id = 1

(* ------------------- calculate_scores called again -------------------- *)

\* C34: calculate_scores is a function of the run list alone: a second
\* call with no add_run in between gives the agent_scores and the summary
\* of the first, and a call after further add_run calls gives the
\* agent_scores and the summary that one call gives on new results holding
\* the same runs.
C34_ScoresDependOnRunsAlone ==
  fn.op = "calculate_scores again" =>
    \A k \in 0..Len(fn.input) :
      /\ fn.output.twice[k].agent_scores = fn.output.once[k].agent_scores
      /\ fn.output.twice[k].summary = fn.output.once[k].summary
      /\ fn.output.twice[k].runs = SubSeq(fn.input, 1, k)
      /\ fn.output.resumed[k].agent_scores = fn.output.fresh.agent_scores
      /\ fn.output.resumed[k].summary = fn.output.fresh.summary
      /\ fn.output.resumed[k].runs = fn.input

\* C34 witness: after one Completed run the scores were calculated, with
\* one agent and a pass rate of 50; two more runs were added, one of them
\* of a second agent that ranks first, and the scores calculated again
C34_Witness ==
  /\ fn.op = "calculate_scores again"
  /\ Len(fn.input) = 3
  /\ Len(fn.output.once[1].agent_scores) = 1
  /\ fn.output.once[1].summary.overall_pass_rate = Ratio(100, 2)
  /\ fn.output.once[1].summary.best_agent = Some(fn.input[1].agent_id)
  /\ Len(fn.output.resumed[1].agent_scores) = 2
  /\ fn.output.resumed[1].summary.best_agent # Some(fn.input[1].agent_id)
  /\ fn.output.resumed[1].summary.overall_pass_rate # Ratio(100, 2)

\* the scores were calculated on runs without tests and again after a
\* further run without tests: the pass rate is that of new results
C34_WitnessNoTests ==
  /\ fn.op = "calculate_scores again"
  /\ Len(fn.input) = 2
  /\ fn.output.once[1].summary.total_tests = 0
  /\ fn.output.resumed[1].summary.total_tests = 0
  /\ fn.output.resumed[1].summary.overall_pass_rate = Zero

(* ---------------------- the JSON events of cargo test ----------------- *)

\* the value of the member of the JSON line with that key, if it is a string
CargoField(line, key) == JsonGetStr(JsonObject(line), key)

\* the lines of text that are JSON objects with type "test" and a name,
\* and whose event is one of events
CargoEvents(text, events) ==
  LinesWith(text, LAMBDA line :
    /\ CargoField(line, "type") = Some("test")
    /\ CargoField(line, "name") # None
    /\ CargoField(line, "event") # None
    /\ CargoField(line, "event")[1] \in events)

\* C35: among the lines that parse as JSON objects with type "test" and a
\* name, the cargo parser counts exactly those whose event is "ok" (passed)
\* or "failed" (failed), with total = passed + failed and one per-case
\* entry per counted event in input order; only when no test event is
\* recovered this way does it return the plain-text scan of the same text.
C35_CountsOkAndFailedEvents ==
  (fn.op = "parse_test_output" /\ fn.input[1] = "cargo") =>
    LET text == fn.input[2]
        counted == CargoEvents(text, {"ok", "failed"})
        out == fn.output.parsed.value
    IN IF counted = <<>> THEN fn.output.parsed = parse_cargo_test_plain(text)
       ELSE /\ out.passed = Len(CargoEvents(text, {"ok"}))
            /\ out.failed = Len(CargoEvents(text, {"failed"}))
            /\ out.total = out.passed + out.failed
            /\ Len(out.tests) = Len(counted)
            /\ \A k \in 1..Len(counted) :
                 /\ out.tests[k].name = <<CargoField(counted[k], "name")[1]>>
                 /\ out.tests[k].passed = (CargoField(counted[k], "event") = Some("ok"))

\* the event strings of the JSON lines given to the parser
CargoEventNames == {"ok", "failed", "started"}

\* what the cargo parser does: every JSON line with type "test", a name and
\* an event that is a string is counted, as passed when the event is "ok"
\* and as failed for any other event; total = passed + failed, one entry
\* per counted line in input order, and the plain-text scan only when no
\* line is counted
C35_EveryEventCounted ==
  (fn.op = "parse_test_output" /\ fn.input[1] = "cargo") =>
    LET text == fn.input[2]
        counted == CargoEvents(text, CargoEventNames)
        out == fn.output.parsed.value
    IN IF counted = <<>> THEN fn.output.parsed = parse_cargo_test_plain(text)
       ELSE /\ out.passed = Len(CargoEvents(text, {"ok"}))
            /\ out.failed = Len(CargoEvents(text, CargoEventNames \ {"ok"}))
            /\ out.total = out.passed + out.failed
            /\ out.skipped = 0
            /\ Len(out.tests) = Len(counted)
            /\ \A k \in 1..Len(counted) :
                 /\ out.tests[k].name = <<CargoField(counted[k], "name")[1]>>
                 /\ out.tests[k].passed = (CargoField(counted[k], "event") = Some("ok"))

\* the events of one passing test, "started" and then "ok": two tests are
\* counted, one of them failed
C35_StartedCountedAsFailed ==
  /\ fn.op = "parse_test_output"
  /\ fn.input[1] = "cargo"
  /\ Len(Lines(fn.input[2])) = 2
  /\ CargoField(Lines(fn.input[2])[1], "event") = Some("started")
  /\ CargoField(Lines(fn.input[2])[2], "event") = Some("ok")
  /\ fn.output.parsed.value.total = 2
  /\ fn.output.parsed.value.passed = 1
  /\ fn.output.parsed.value.failed = 1
  /\ fn.output.run.score = Some(Ratio(100, 2))

\* a "started" event alone keeps the parser from the plain-text scan of a
\* text that also holds a plain result line
C35_StartedKeepsFromPlainScan ==
  /\ fn.op = "parse_test_output"
  /\ fn.input[1] = "cargo"
  /\ CargoEvents(fn.input[2], {"ok", "failed"}) = <<>>
  /\ parse_cargo_test_plain(fn.input[2]).value.total > 0
  /\ fn.output.parsed.value.total = 1
  /\ fn.output.parsed.value.failed = 1
  /\ fn.output.parsed.value.tests[1].name = <<"t1">>

(* ----------------------- the generic summary line --------------------- *)

\* the line holds the word in some case
HasWord(line, word) == \E k \in 1..Len(line) : Lower(line[k]) = word

\* the line matches the first pattern: "passed" and "failed" in any case
\* and at least two numbers
IsPassedFailedLine(line) ==
  HasWord(line, "passed") /\ HasWord(line, "failed") /\ Len(NumsOf(line)) >= 2

\* the line matches the second pattern and not the first: "tests:" and at
\* least one number
IsTestsLine(line) ==
  ~IsPassedFailedLine(line) /\ HasWord(line, "tests:") /\ Len(NumsOf(line)) >= 1

\* the positions of the lines of text that match a pattern
SummaryPositions(text) ==
  {k \in 1..Len(Lines(text)) : IsPassedFailedLine(Lines(text)[k]) \/ IsTestsLine(Lines(text)[k])}

\* C36: the generic parser uses the first line, in input order, that
\* matches one of two patterns: a line containing both "passed" and
\* "failed" (in any case) with at least two numbers gives passed = first
\* number, failed = second, total = passed + failed; a line containing
\* "tests:" with at least one number gives passed, failed and total from
\* its first three numbers; when no line matches, total = passed = failed
\* = 0; the per-case list is always empty.
C36_FirstThreeNumbers ==
  (fn.op = "parse_test_output" /\ fn.input[1] \in {"npm", "custom"}) =>
    LET out == fn.output.parsed.value
        at == SummaryPositions(fn.input[2])
    IN /\ out.tests = <<>>
       /\ IF at = {} THEN out.total = 0 /\ out.passed = 0 /\ out.failed = 0
          ELSE LET line == Lines(fn.input[2])[Min(at)]
                   nums == NumsOf(line)
               IN IF IsPassedFailedLine(line)
                    THEN /\ out.passed = nums[1]
                         /\ out.failed = nums[2]
                         /\ out.total = nums[1] + nums[2]
                    ELSE /\ out.passed = nums[1]
                         /\ Len(nums) >= 2 => out.failed = nums[2]
                         /\ Len(nums) >= 3 => out.total = nums[3]

\* C36 with the numbers the second pattern does not find: as above, but a
\* line containing "tests:" (in any case) with at least one number gives
\* passed = first number, failed = second number or 0 when there is none,
\* and total = third number when there is one and it is not 0, otherwise
\* passed + failed.
C36_FirstMatchingLineDecides ==
  (fn.op = "parse_test_output" /\ fn.input[1] \in {"npm", "custom"}) =>
    LET out == fn.output.parsed.value
        at == SummaryPositions(fn.input[2])
    IN /\ out.tests = <<>>
       /\ out.skipped = 0
       /\ IF at = {} THEN out.total = 0 /\ out.passed = 0 /\ out.failed = 0
          ELSE LET line == Lines(fn.input[2])[Min(at)]
                   nums == NumsOf(line)
               IN IF IsPassedFailedLine(line)
                    THEN /\ out.passed = nums[1]
                         /\ out.failed = nums[2]
                         /\ out.total = nums[1] + nums[2]
                    ELSE /\ out.passed = nums[1]
                         /\ out.failed = (IF Len(nums) >= 2 THEN nums[2] ELSE 0)
                         /\ out.total = (IF Len(nums) >= 3 /\ nums[3] # 0 THEN nums[3]
                                         ELSE out.passed + out.failed)

\* C36 witness: of two lines that match a pattern the first decides: "1
\* passed, 0 failed" before a line with the numbers 2 and 3 gives passed 1,
\* failed 0, total 1
C36_Witness ==
  /\ fn.op = "parse_test_output"
  /\ fn.input[1] = "npm"
  /\ Cardinality(SummaryPositions(fn.input[2])) = 2
  /\ IsPassedFailedLine(Lines(fn.input[2])[1])
  /\ NumsOf(Lines(fn.input[2])[2]) = <<2, 3>>
  /\ fn.output.parsed.value.passed = 1
  /\ fn.output.parsed.value.failed = 0
  /\ fn.output.parsed.value.total = 1

\* a "tests:" line whose third number is 0: the total is passed + failed
C36_WitnessZeroTotal ==
  /\ fn.op = "parse_test_output"
  /\ fn.input[1] = "custom"
  /\ Len(Lines(fn.input[2])) = 1
  /\ IsTestsLine(fn.input[2])
  /\ NumsOf(fn.input[2]) = <<1, 1, 0>>
  /\ fn.output.parsed.value.total = 2

\* a "tests:" line with one number: failed is 0 and the total is passed
C36_WitnessOneNumber ==
  /\ fn.op = "parse_test_output"
  /\ fn.input[1] = "custom"
  /\ Len(Lines(fn.input[2])) = 1
  /\ IsTestsLine(fn.input[2])
  /\ NumsOf(fn.input[2]) = <<2>>
  /\ fn.output.parsed.value.passed = 2
  /\ fn.output.parsed.value.failed = 0
  /\ fn.output.parsed.value.total = 2

(* ------------------ the parsers of the two runners -------------------- *)

\* the counts of a parser's result
CountsOf(parsed) ==
  <<parsed.value.total, parsed.value.passed, parsed.value.failed, parsed.value.skipped>>

\* C37: for every harness and every text, the parser of the local runner
\* and the parser of the pod runner for that harness return the same
\* total, passed, failed and skipped counts.
C37_LocalAndPodParsersAgree ==
  fn.op = "parse_test_output" =>
    /\ fn.output.local.ok = fn.output.parsed.ok
    /\ CountsOf(fn.output.local) = CountsOf(fn.output.parsed)

\* the two go parsers return the same counts for every text
C37_GoParsersAgree ==
  (fn.op = "parse_test_output" /\ fn.input[1] = "go") =>
    CountsOf(fn.output.local) = CountsOf(fn.output.parsed)

\* the two cargo parsers return the same counts for every text in which
\* the pod runner's parser finds no JSON test event, the two pytest parsers
\* for every text without a line that holds SKIPPED and neither PASSED nor
\* FAILED, and the two generic parsers for every text in which the line
\* that decides holds "passed", "failed" and two numbers
C37_ParsersAgreeOnCommonPatterns ==
  fn.op = "parse_test_output" =>
    LET text == fn.input[2]
        common ==
          CASE fn.input[1] = "go" -> TRUE
            [] fn.input[1] = "cargo" -> CargoEvents(text, CargoEventNames) = <<>>
            [] fn.input[1] = "pytest" ->
                 LinesWith(text, LAMBDA l : /\ HasToken(l, "SKIPPED")
                                            /\ ~HasToken(l, "PASSED")
                                            /\ ~HasToken(l, "FAILED")) = <<>>
            [] OTHER -> \A k \in SummaryPositions(text) :
                          IsPassedFailedLine(Lines(text)[k])
    IN common => CountsOf(fn.output.local) = CountsOf(fn.output.parsed)

\* a JSON event of cargo test: one passed test for the pod runner's parser,
\* no test for the local runner's
C37_CargoJsonDiffers ==
  /\ fn.op = "parse_test_output"
  /\ fn.input[1] = "cargo"
  /\ CountsOf(fn.output.parsed) = <<1, 1, 0, 0>>
  /\ CountsOf(fn.output.local) = <<0, 0, 0, 0>>

\* a skipped test of pytest: counted by the pod runner's parser alone
C37_PytestSkippedDiffers ==
  /\ fn.op = "parse_test_output"
  /\ fn.input[1] = "pytest"
  /\ CountsOf(fn.output.parsed) = <<2, 1, 0, 1>>
  /\ CountsOf(fn.output.local) = <<1, 1, 0, 0>>

\* a "Tests:" summary line of a custom harness: read by the pod runner's
\* parser alone
C37_GenericTestsLineDiffers ==
  /\ fn.op = "parse_test_output"
  /\ fn.input[1] = "custom"
  /\ IsTestsLine(fn.input[2])
  /\ fn.output.parsed.value.passed = 2
  /\ CountsOf(fn.output.local) = <<0, 0, 0, 0>>

(* ------------------------ cleanup of the sandbox ---------------------- *)

\* the job has left run_single_eval: its result is about to be appended,
\* or has been
Returned(i) == job[i].pc \in {"return", "finished"}

\* C38: with cleanup_on_complete set, every sandbox whose spawn succeeded
\* has had a delete attempted on it before the result of its job is
\* appended and its permit released, whichever way the job ended; with
\* cleanup_on_complete not set no delete is ever issued.
C38_DeleteAttemptedOnEveryPath ==
  \A i \in Jobs :
    /\ (config.cleanup_on_complete /\ calls[i].spawn = 1 /\ ~SpawnFailed(i) /\ Returned(i)) =>
         calls[i].delete >= 1
    /\ ~config.cleanup_on_complete => calls[i].delete = 0

\* what holds: with cleanup_on_complete set, a job whose spawn succeeded
\* and whose wait returned a status (Succeeded, Failed or the timeout) has
\* made exactly one delete call when it returns, whatever its log
\* retrievals and the markers gave; a job whose spawn failed or whose wait
\* ended in an error of the status query has made none; and with
\* cleanup_on_complete not set no delete is ever issued
C38_DeleteAttemptedAfterTheMatch ==
  \A i \in Jobs :
    /\ calls[i].delete =
         (IF /\ config.cleanup_on_complete
             /\ calls[i].spawn = 1 /\ ~SpawnFailed(i) /\ ~StatusFailed(i)
             /\ Returned(i)
            THEN 1 ELSE 0)
    /\ job[i].pc = "cleanup" => config.cleanup_on_complete

\* cleanup_on_complete is set, the status query of a job failed, its
\* result has been appended and its permit released, and no delete was
\* attempted on its sandbox
C38_SandboxLeftAfterStatusError ==
  /\ mode = "pods"
  /\ config.cleanup_on_complete
  /\ \E i \in Jobs :
       /\ calls[i].spawn = 1
       /\ StatusFailed(i)
       /\ Appended(i)
       /\ job[i].pc = "finished"
       /\ calls[i].delete = 0

\* with cleanup_on_complete set, a delete was attempted for a job whose log
\* retrieval failed after its pod had succeeded
C38_DeletedAfterLogFailure ==
  /\ config.cleanup_on_complete
  /\ \E i \in Jobs :
       /\ Returned(i)
       /\ calls[i].delete = 1
       /\ HasResult(i)
       /\ ResultOf(i).error = Some(<<"Failed to retrieve pod logs">>)

(* ------------------- the statuses of the returned runs ---------------- *)

C39_WitnessLocal ==
  /\ mode = "local"
  /\ is_some(returned)
  /\ returned[1].summary.completed = 1
  /\ returned[1].summary.failed = 1
  /\ returned[1].summary.timed_out = 0

(* --------------------- ties in the ranking of agents ------------------ *)

\* what the claim compares: the agents in the order of agent_scores with
\* their ranks and average scores, best_agent and worst_agent
RankingOf(res) ==
  [ order |-> [k \in 1..Len(res.agent_scores) |->
                 <<res.agent_scores[k].agent_id, res.agent_scores[k].rank,
                   res.agent_scores[k].average_score>>],
    best_agent |-> res.summary.best_agent,
    worst_agent |-> res.summary.worst_agent ]

\* C40: agents with equal average_score are ordered by ascending agent_id
\* ("claude-code-..." before "codex-..."), so the order of agent_scores, the
\* ranks, best_agent and worst_agent are the same for every arrival order
\* of the same runs.
C40_TiesByAgentIdInEveryArrivalOrder ==
  fn.op = "calculate_scores permuted" =>
    LET scores == fn.output.arrival.agent_scores
    IN /\ \A k \in 1..(Len(scores) - 1) :
            RatioEq(scores[k].average_score, scores[k + 1].average_score) =>
              /\ scores[k].agent_id[1] = "claude-code"
              /\ scores[k + 1].agent_id[1] = "codex"
       /\ \A res \in fn.output.permuted : RankingOf(res) = RankingOf(fn.output.arrival)

\* C40 witness: a run of the second agent arrived before a run of the
\* first, both agents have the average score 100, and the first agent is
\* ranked first and is best_agent
C40_Witness ==
  /\ fn.op = "calculate_scores permuted"
  /\ Len(fn.input) = 2
  /\ fn.input[1].agent_id[1] = "codex"
  /\ fn.input[2].agent_id[1] = "claude-code"
  /\ Len(fn.output.arrival.agent_scores) = 2
  /\ fn.output.arrival.agent_scores[1].average_score = Ratio(100, 1)
  /\ fn.output.arrival.agent_scores[2].average_score = Ratio(100, 1)
  /\ fn.output.arrival.agent_scores[1].agent_id[1] = "claude-code"
  /\ fn.output.arrival.agent_scores[1].rank = 1
  /\ fn.output.arrival.summary.best_agent = Some(fn.input[2].agent_id)
  /\ fn.output.arrival.summary.worst_agent = Some(fn.input[1].agent_id)
  /\ Cardinality(fn.output.permuted) = 2

\* both agents have no tests and the average score 0: the same order
C40_WitnessNoTests ==
  /\ fn.op = "calculate_scores permuted"
  /\ Len(fn.input) = 3
  /\ fn.input[1].agent_id[1] = "codex"
  /\ Len(fn.output.arrival.agent_scores) = 2
  /\ \A k \in 1..2 : fn.output.arrival.agent_scores[k].average_score = Zero
  /\ fn.output.arrival.agent_scores[1].agent_id[1] = "claude-code"

====
